---- MODULE Spec2Model ----
(***************************************************************************)
(* AyurMap backend: the Express request pipeline (authenticateUser, the    *)
(* role gates, the route handlers of chatRoutes / userRoutes / adminRoutes *)
(* / farmerRoutes) over the three Mongoose collections User, Plant, Chat.  *)
(* A request is a process whose position advances at every awaited         *)
(* database call; each database call is one atomic step.                   *)
(***************************************************************************)
EXTENDS Integers, Sequences, FiniteSets, TLC

\* ------------------------------------------------------------------ bounds
MaxRequests == 2
MaxInFlight == 2
MaxEvents == 1

Slots == 1..MaxInFlight

\* --------------------------------------------------------- program constants
\* token.substring(0, 20)
ClerkIdLen == 20
\* authHeader.substring(7)
BearerLen == 7
\* body('reason').isLength({ min: 10 })
MinReasonLen == 10
\* body('message').isLength({ min: 1, max: 1000 })
MinMessageLen == 1
MaxMessageLen == 1000
\* body('ayurvedicDescription').optional().isLength({ min: 10 })
MinDescriptionLen == 10

BearerPrefix == <<"B", "e", "a", "r", "e", "r", " ">>
FallbackEmail == <<"user@example.com">>
TempDomain == <<"@temp.com">>
ADMIN_EMAIL == <<"admin@x">>

\* ------------------------------------------------------------------- state
VARIABLES
    users,      \* User collection   : _id -> document
    plants,     \* Plant collection  : _id -> document
    chats,      \* Chat collection   : _id -> document
    nextId,     \* ObjectId generator, per collection
    reqs,       \* requests in flight: slot -> request
    nreq,       \* number of requests received so far
    emitted,    \* 'receive-message' events emitted with io.to(room).emit
    acked,      \* send-message requests answered 201
    workload,   \* the request mix the clients issue
    rooms,      \* Socket.io rooms  : chatId -> sockets that joined
    sent,       \* socket events the server received from clients
    inbox,      \* socket events the server sent to each socket
    useChat,    \* usePlants.ts useChat: the hook's props, state and refs
    sockets,    \* usePlants.ts useChat: the sockets its effect runs created
    timers,     \* usePlants.ts useChat: the live setInterval timers
    fetches,    \* usePlants.ts useChat: the HTTP calls in flight
    index       \* pages/Index.tsx: Clerk's state, the page's state, the URL

\* the state of the browser clients
clientVars == <<useChat, sockets, timers, fetches, index>>

vars == <<users, plants, chats, nextId, reqs, nreq, emitted, acked, workload,
          rooms, sent, inbox, clientVars>>

\* ------------------------------------------------------- strings and tokens
Min(a, b) == IF a < b THEN a ELSE b

\* String.prototype.substring(0, n)
Substring0(s, n) == SubSeq(s, 1, Min(n, Len(s)))

\* String.prototype.substring(n)
SubstringFrom(s, n) == SubSeq(s, n + 1, Len(s))

\* String.prototype.startsWith
StartsWith(s, p) == Len(s) >= Len(p) /\ SubSeq(s, 1, Len(p)) = p

RECURSIVE SplitAcc(_, _, _)
SplitAcc(s, sep, cur) ==
    IF s = <<>> THEN <<cur>>
    ELSE IF Head(s) = sep THEN <<cur>> \o SplitAcc(Tail(s), sep, <<>>)
    ELSE SplitAcc(Tail(s), sep, Append(cur, Head(s)))

\* String.prototype.split(sep)
Split(s, sep) == SplitAcc(s, sep, <<>>)

NoPayload == [ok |-> FALSE, sub |-> <<>>, email |-> <<>>]

\* JSON.parse(Buffer.from(base64, 'base64').toString()) on the payload segment:
\* the segments below are the encodings of the listed claims, any other
\* segment is not the base64 of a JSON document.
ParsePayload(seg) ==
    CASE seg = <<"A">> -> [ok |-> TRUE, sub |-> <<"a", "1">>, email |-> <<>>]
      [] seg = <<"F">> -> [ok |-> TRUE, sub |-> <<"f", "1">>, email |-> <<>>]
      [] seg = <<"C">> -> [ok |-> TRUE, sub |-> <<"c", "1">>, email |-> <<>>]
      [] seg = <<"N">> -> [ok |-> TRUE, sub |-> <<"n", "1">>, email |-> <<>>]
      [] seg = <<"R">> -> [ok |-> TRUE, sub |-> <<"r", "1">>, email |-> <<"cons@x">>]
      [] OTHER -> NoPayload

\* the inner try block of authenticateUser: the decoded payload, or a
\* decode error (ok = FALSE)
DecodeToken(token) ==
    LET segs == Split(token, ".")
    IN  IF Len(segs) < 2 \/ segs[2] = <<>> THEN NoPayload
        ELSE ParsePayload(segs[2])

\* String.prototype.toLowerCase, on the letters the clients use
LowerChar(c) == CASE c = "F" -> "f" [] c = "T" -> "t" [] OTHER -> c
ToLowerCase(s) == [i \in 1..Len(s) |-> LowerChar(s[i])]

\* String.prototype.includes
Includes(s, sub) ==
    \E i \in 0..(Len(s) - Len(sub)) : SubSeq(s, i + 1, i + Len(sub)) = sub

\* const healthConditions = ['cold', 'fever', 'cough', ...]
healthConditions ==
    {<<"c","o","l","d">>, <<"f","e","v","e","r">>, <<"c","o","u","g","h">>,
     <<"h","e","a","d","a","c","h","e">>, <<"s","t","o","m","a","c","h">>,
     <<"p","a","i","n">>, <<"i","n","f","l","a","m","m","a","t","i","o","n">>,
     <<"d","i","g","e","s","t","i","o","n">>, <<"a","n","x","i","e","t","y">>,
     <<"s","t","r","e","s","s">>}

\* healthConditions.some(condition => query.toLowerCase().includes(condition))
isHealthCondition(query) ==
    \E condition \in healthConditions : Includes(ToLowerCase(query), condition)

Tulsi == <<"T","u","l","s","i">>
Ocimum == <<"O","c","i","m","u","m">>
Neem == <<"N","e","e","m">>

NoHeader == [present |-> FALSE, text |-> <<>>]
Hdr(text) == [present |-> TRUE, text |-> text]
Bearer(token) == Hdr(BearerPrefix \o token)

TokInvalid == <<"i","n","v","a","l","i","d","_","t","o","k","e","n">>
TokMock == <<"m","o","c","k","_","t","o","k","e","n","_","f","o","r","_",
             "t","e","s","t","i","n","g">>
Jwt(seg) == <<"h", ".">> \o seg \o <<".", "s">>
\* three segments, but the payload is not the base64 of a JSON document
TokNoJson == Jwt(<<"x">>)

MalformedTokens == {TokInvalid, TokMock, TokNoJson}
JwtTokens == {Jwt(<<"A">>), Jwt(<<"F">>), Jwt(<<"C">>), Jwt(<<"N">>),
              Jwt(<<"R">>)}
Headers ==
    {NoHeader, Hdr(<<"B", "a", "s", "i", "c", " ", "a", "b", "c">>)}
        \cup {Bearer(t) : t \in MalformedTokens \cup JwtTokens}

\* ------------------------------------------------------------ the database
Roles == {"consumer", "farmer", "admin"}

UserDoc(clerkId, email, role) ==
    [clerkId |-> clerkId, email |-> email, role |-> role,
     searchHistory |-> <<>>]

\* a plant record; ayurvedicDescription is kept by its length
PlantDoc(farmerId) ==
    [farmerId |-> farmerId, isActive |-> TRUE,
     naturalName |-> Tulsi, scientificName |-> Ocimum, commonNames |-> {},
     ayurvedicDescription |-> MinDescriptionLen, viewCount |-> 0]

Participant(userId, role) == [userId |-> userId, role |-> role]

\* Chat.create({...}) of start-chat, with the schema defaults of Chat.js
ChatDoc(plantId, farmerId, userId, userRole, now) ==
    [plantId |-> plantId, farmerId |-> farmerId, userId |-> userId,
     isActive |-> TRUE, lastMessageAt |-> now,
     participants |-> <<Participant(farmerId, "farmer"),
                        Participant(userId, userRole)>>,
     messages |-> <<>>, totalMessages |-> 0,
     unreadCount |-> [farmer |-> 0, user |-> 0],
     isReported |-> FALSE, reportedBy |-> 0]

\* userSchema.role enum
UserRoleEnum == {"consumer", "farmer", "admin"}

\* chatSchema.messages.senderRole enum
SenderRoleEnum == {"user", "farmer", "admin"}

\* document.save() runs the schema validators on the loaded document.  The
\* update operators (findByIdAndUpdate, updateMany) run none unless asked
\* with runValidators, so a stored value can be outside its enum; whether
\* save() then rejects the untouched path depends on the Mongoose release,
\* and both outcomes are kept.
SaveRejects(valid) == IF valid THEN {FALSE} ELSE {FALSE, TRUE}

\* Model.findById: the _id, or 0 (null) when no such document
FindById(coll, id) == IF id \in DOMAIN coll THEN id ELSE 0

\* User.findOne({ clerkId })
FindByClerkId(cid) ==
    IF \E u \in DOMAIN users : users[u].clerkId = cid
    THEN CHOOSE u \in DOMAIN users : users[u].clerkId = cid
    ELSE 0

\* User.findOne({ email })
FindByEmail(email) ==
    IF \E u \in DOMAIN users : users[u].email = email
    THEN CHOOSE u \in DOMAIN users : users[u].email = email
    ELSE 0

\* userSchema: clerkId and email are required and unique
\* (a required String rejects the empty string)
CanCreateUser(clerkId, email) ==
    /\ clerkId # <<>>
    /\ email # <<>>
    /\ \A u \in DOMAIN users :
          users[u].clerkId # clerkId /\ users[u].email # email

\* insert a document under a fresh _id
Insert(coll, id, doc) == [i \in DOMAIN coll \cup {id} |->
                            IF i = id THEN doc ELSE coll[i]]

\* remove a document
Remove(coll, id) == [i \in DOMAIN coll \ {id} |-> coll[i]]

\* ---------------------------------------------------------------- requests
NoUser == [id |-> 0, role |-> "none", email |-> <<>>]

Idle == [pc |-> "idle", route |-> "none", rid |-> 0, header |-> NoHeader,
         user |-> NoUser, via |-> "none", chatId |-> 0, plantId |-> 0,
         targetId |-> 0, role |-> "none", len |-> 0, idx |-> 0,
         status |-> 0, query |-> <<>>, results |-> {}, searchType |-> "none",
         seen |-> 0]

\* res.status(code).json(...): the request is answered and leaves the pipeline
Answered(q, code) == [Idle EXCEPT !.pc = "done", !.status = code,
                                  !.route = q.route, !.rid = q.rid,
                                  !.header = q.header, !.user = q.user,
                                  !.chatId = q.chatId]

Respond(r, code) == reqs' = [reqs EXCEPT ![r] = Answered(reqs[r], code)]

Goto(r, pc) == reqs' = [reqs EXCEPT ![r].pc = pc]

Running(r, route, pc) == reqs[r].route = route /\ reqs[r].pc = pc

\* ------------------------------------------------------------- middleware
\* a middleware either answers with a status code or calls next()
CallNext == 0
AwaitSave == 1

\* authorizeRole(...roles)
AuthorizeRole(roles, user) ==
    IF user.id = 0 THEN 401
    ELSE IF user.role \notin roles THEN 403
    ELSE CallNext

\* a gate that lists one role too many
adminOrFarmer(user) == AuthorizeRole({"admin", "farmer"}, user)

adminOnly(user) == AuthorizeRole({"admin"}, user)
farmerOnly(user) == AuthorizeRole({"farmer"}, user)
consumerOrFarmer(user) == AuthorizeRole({"consumer", "farmer"}, user)

\* farmerOrAutoUpgrade, up to its await
farmerOrAutoUpgrade(user) ==
    IF user.id = 0 THEN 401
    ELSE IF user.role = "farmer" \/ user.role = "admin" THEN CallNext
    ELSE IF user.role = "consumer" THEN AwaitSave
    ELSE CallNext

ChatRoutes == {"getChat", "sendMessage", "markRead", "deleteChat",
               "reportChat"}
UserRoutes == {"startChat", "searchPlants"}
OpenRoutes == {"syncRole", "savePlant"}
AdminRoutes == {"adminDeleteUser", "adminDeletePlant", "adminResolveReport",
                "adminDeleteChat", "adminSetRole"}
FarmerRoutes == {"testAuth", "uploadPlant", "farmerUpdatePlant",
                 "farmerDeletePlant"}
Routes == ChatRoutes \cup UserRoutes \cup OpenRoutes \cup AdminRoutes
            \cup FarmerRoutes

\* the middleware mounted on the route after authenticateUser
Gate(route, user) ==
    CASE route \in ChatRoutes \cup UserRoutes -> consumerOrFarmer(user)
      [] route \in AdminRoutes -> adminOnly(user)
      [] route \in FarmerRoutes -> farmerOrAutoUpgrade(user)
      [] OTHER -> CallNext

\* next() after authenticateUser: the role middleware runs in the same tick
Dispatch(r, q) ==
    LET g == Gate(q.route, q.user)
    IN  IF g = CallNext THEN reqs' = [reqs EXCEPT ![r] = [q EXCEPT !.pc = "handler"]]
        ELSE IF g = AwaitSave THEN reqs' = [reqs EXCEPT ![r] = [q EXCEPT !.pc = "upgrade"]]
        ELSE reqs' = [reqs EXCEPT ![r] = Answered(q, g)]

\* ------------------------------------------------------- authenticateUser
\* the check without startsWith
HasBearerLoose(header) == header.present

\* authHeader && authHeader.startsWith('Bearer ')
HasBearer(header) == header.present /\ StartsWith(header.text, BearerPrefix)

Token(q) == SubstringFrom(q.header.text, BearerLen)

\* the clerkId the request is looked up under
ClerkIdOf(q) ==
    LET p == DecodeToken(Token(q))
    IN  IF p.ok THEN p.sub ELSE Substring0(Token(q), ClerkIdLen)

\* the email the request is looked up and created under
EmailOf(q) ==
    LET p == DecodeToken(Token(q))
    IN  IF ~p.ok THEN FallbackEmail
        ELSE IF p.email # <<>> THEN p.email
        ELSE p.sub \o TempDomain

Snapshot(id) == [id |-> id, role |-> users[id].role, email |-> users[id].email]

\* header check, token decoding and User.findOne({ clerkId })
AuthFind(r) ==
    /\ reqs[r].pc = "auth"
    /\ LET q == reqs[r]
           found == FindByClerkId(ClerkIdOf(q))
       IN  IF ~HasBearer(q.header)
           THEN Respond(r, 401)
           ELSE IF found # 0
           THEN reqs' = [reqs EXCEPT ![r].pc = "auth_write",
                                     ![r].via = "clerkId",
                                     ![r].user = Snapshot(found)]
           ELSE IF DecodeToken(Token(q)).ok
           THEN Goto(r, "auth_email")
           ELSE reqs' = [reqs EXCEPT ![r].pc = "auth_write",
                                     ![r].via = "create"]
    /\ UNCHANGED <<users, plants, chats, nextId, nreq, emitted, acked, workload,
                   rooms, sent, inbox, clientVars>>

\* User.findOne({ email }), the fallback lookup of the JWT path
AuthEmail(r) ==
    /\ reqs[r].pc = "auth_email"
    /\ LET found == FindByEmail(EmailOf(reqs[r]))
       IN  IF found # 0
           THEN reqs' = [reqs EXCEPT ![r].pc = "auth_write",
                                     ![r].via = "email",
                                     ![r].user = Snapshot(found)]
           ELSE reqs' = [reqs EXCEPT ![r].pc = "auth_write",
                                     ![r].via = "create"]
    /\ UNCHANGED <<users, plants, chats, nextId, nreq, emitted, acked, workload,
                   rooms, sent, inbox, clientVars>>

\* User.create / user.save, then req.user = user and next();
\* a rejected write is caught and answered 401
AuthWrite(r) ==
    /\ reqs[r].pc = "auth_write"
    /\ \E rejected \in SaveRejects(reqs[r].user.role \in UserRoleEnum \cup {"none"}) :
       LET q == reqs[r]
           cid == ClerkIdOf(q)
           email == EmailOf(q)
           id == nextId.user
       IN  CASE q.via = "create" ->
                  IF CanCreateUser(cid, email)
                  THEN /\ users' = Insert(users, id, UserDoc(cid, email, "consumer"))
                       /\ nextId' = [nextId EXCEPT !.user = id + 1]
                       /\ Dispatch(r, [q EXCEPT !.user =
                              [id |-> id, role |-> "consumer", email |-> email]])
                  ELSE /\ Respond(r, 401)
                       /\ UNCHANGED <<users, nextId>>
             [] q.via = "email" ->
                  IF q.user.id \in DOMAIN users
                     /\ \A u \in DOMAIN users : users[u].clerkId # cid
                     /\ ~rejected
                  THEN /\ users' = [users EXCEPT ![q.user.id].clerkId = cid]
                       /\ Dispatch(r, q)
                       /\ UNCHANGED nextId
                  ELSE /\ Respond(r, 401)
                       /\ UNCHANGED <<users, nextId>>
             [] OTHER ->
                  /\ IF q.user.id \in DOMAIN users /\ ~rejected
                     THEN Dispatch(r, q)
                     ELSE Respond(r, 401)
                  /\ UNCHANGED <<users, nextId>>
    /\ UNCHANGED <<plants, chats, nreq, emitted, acked, workload,
                   rooms, sent, inbox, clientVars>>

\* ------------------------------------------------------------- chat routes
DbUnchanged == UNCHANGED <<users, plants, chats, nextId>>
NoEvents == UNCHANGED <<emitted, acked>>
EnvUnchanged == UNCHANGED <<nreq, workload, rooms, sent, inbox, clientVars>>

\* chat.participants.some(p => p.userId.toString() === req.user._id.toString())
isParticipant(chat, user) ==
    \E i \in 1..Len(chat.participants) : chat.participants[i].userId = user.id

\* the lookup without the participant check
ChatAccessOpen(q) == IF FindById(chats, q.chatId) = 0 THEN 404 ELSE CallNext

\* the lookup and access check shared by the /api/chat/:chatId handlers:
\* 404, 403 or CallNext
ChatAccess(q) ==
    IF FindById(chats, q.chatId) = 0 THEN 404
    ELSE IF ~isParticipant(chats[q.chatId], q.user) /\ q.user.role # "admin"
    THEN 403
    ELSE CallNext

\* GET /api/chat/:chatId: the counter the reader resets
unreadField(user) == IF user.role = "farmer" THEN "farmer" ELSE "user"

\* POST /api/chat/:chatId/messages: the counter the sender increments
incField(user) == IF user.role = "farmer" THEN "user" ELSE "farmer"

\* { $set: { [`unreadCount.${unreadField}`]: 0 } }
ResetUnread(chat, field) == [chat EXCEPT !.unreadCount[field] = 0]

NewMessage(q) ==
    [id |-> q.rid, senderId |-> q.user.id, senderRole |-> q.user.role,
     message |-> q.rid, isRead |-> FALSE]

\* a $set of the array in place of the $push
PushMessageSet(chat, msg, field, now) ==
    [chat EXCEPT !.messages = <<msg>>,
                 !.totalMessages = @ + 1,
                 !.unreadCount[field] = @ + 1,
                 !.lastMessageAt = now]

\* the $push without the $inc of totalMessages
PushMessageNoInc(chat, msg, field, now) ==
    [chat EXCEPT !.messages = Append(@, msg),
                 !.unreadCount[field] = @ + 1,
                 !.lastMessageAt = now]

\* { $push: { messages }, $inc: { totalMessages, unreadCount.x }, $set: { lastMessageAt } }
PushMessage(chat, msg, field, now) ==
    [chat EXCEPT !.messages = Append(@, msg),
                 !.totalMessages = @ + 1,
                 !.unreadCount[field] = @ + 1,
                 !.lastMessageAt = now]

\* chat.messages[messageIndex].isRead = true; chat.save()
MarkRead(chat, idx) == [chat EXCEPT !.messages[idx].isRead = TRUE]

\* a close that also empties the thread
DeactivateWipe(chat) ==
    [chat EXCEPT !.isActive = FALSE, !.messages = <<>>, !.totalMessages = 0]

\* Chat.findByIdAndUpdate(chatId, { isActive: false })
Deactivate(chat) == [chat EXCEPT !.isActive = FALSE]

\* Chat.findByIdAndUpdate(chatId, { isReported: true, reportedBy, ... })
Report(chat, by) == [chat EXCEPT !.isReported = TRUE, !.reportedBy = by]

\* Model.findByIdAndUpdate: no document, no write
UpdateById(coll, id, new) ==
    IF id \in DOMAIN coll THEN [coll EXCEPT ![id] = new] ELSE coll

\* chat.messages.findIndex(msg => msg._id.toString() === messageId); 0 is -1
messageIndex(chat, messageId) ==
    IF \E i \in 1..Len(chat.messages) : chat.messages[i].id = messageId
    THEN CHOOSE i \in 1..Len(chat.messages) :
            /\ chat.messages[i].id = messageId
            /\ \A j \in 1..(i - 1) : chat.messages[j].id # messageId
    ELSE 0

\* GET /api/chat/:chatId up to the counter reset; the document findById
\* returned is the one the response carries, seen is its number of messages
GetFind(r) ==
    /\ Running(r, "getChat", "handler")
    /\ LET q == reqs[r]
           a == ChatAccess(q)
       IN  IF a # CallNext THEN Respond(r, a)
           ELSE IF chats[q.chatId].unreadCount[unreadField(q.user)] > 0
           THEN reqs' = [reqs EXCEPT ![r].pc = "get_reset",
                                     ![r].seen = Len(chats[q.chatId].messages)]
           ELSE Respond(r, 200)
    /\ DbUnchanged /\ NoEvents /\ EnvUnchanged

GetReset(r) ==
    /\ Running(r, "getChat", "get_reset")
    /\ LET q == reqs[r]
       IN  /\ chats' = IF q.chatId \in DOMAIN chats
                       THEN UpdateById(chats, q.chatId,
                               ResetUnread(chats[q.chatId], unreadField(q.user)))
                       ELSE chats
           /\ Respond(r, 200)
    /\ UNCHANGED <<users, plants, nextId>> /\ NoEvents /\ EnvUnchanged

\* POST /api/chat/:chatId/messages up to the update
SendFind(r) ==
    /\ Running(r, "sendMessage", "handler")
    /\ LET q == reqs[r]
           a == ChatAccess(q)
       IN  IF q.len < MinMessageLen \/ q.len > MaxMessageLen
           THEN Respond(r, 400)
           ELSE IF a # CallNext THEN Respond(r, a)
           ELSE Goto(r, "send_update")
    /\ DbUnchanged /\ NoEvents /\ EnvUnchanged

SendUpdate(r) ==
    /\ Running(r, "sendMessage", "send_update")
    /\ LET q == reqs[r]
       IN  /\ chats' = IF q.chatId \in DOMAIN chats
                       THEN UpdateById(chats, q.chatId,
                               PushMessage(chats[q.chatId], NewMessage(q),
                                           incField(q.user), nreq))
                       ELSE chats
           /\ emitted' = Append(emitted, [chatId |-> q.chatId, rid |-> q.rid])
           /\ acked' = acked \cup {[rid |-> q.rid, chatId |-> q.chatId]}
           /\ Respond(r, 201)
    /\ UNCHANGED <<users, plants, nextId>> /\ EnvUnchanged

\* PUT /api/chat/:chatId/messages/:messageId/read
ReadFind(r) ==
    /\ Running(r, "markRead", "handler")
    /\ LET q == reqs[r]
           a == ChatAccess(q)
       IN  IF a # CallNext THEN Respond(r, a)
           ELSE IF messageIndex(chats[q.chatId], q.targetId) = 0
           THEN Respond(r, 404)
           ELSE reqs' = [reqs EXCEPT ![r].pc = "read_save",
                            ![r].idx = messageIndex(chats[q.chatId], q.targetId),
                            ![r].len = Len(chats[q.chatId].messages)]
    /\ DbUnchanged /\ NoEvents /\ EnvUnchanged

\* the messages loaded by Chat.findById all have a senderRole of the enum
LoadedValid(q) ==
    q.chatId \in DOMAIN chats =>
        \A i \in 1..Min(q.len, Len(chats[q.chatId].messages)) :
            chats[q.chatId].messages[i].senderRole \in SenderRoleEnum

ReadSave(r) ==
    /\ Running(r, "markRead", "read_save")
    /\ \E rejected \in SaveRejects(LoadedValid(reqs[r])) :
       LET q == reqs[r]
       IN  IF q.chatId \in DOMAIN chats /\ ~rejected
           THEN /\ chats' = UpdateById(chats, q.chatId,
                                MarkRead(chats[q.chatId], q.idx))
                /\ Respond(r, 200)
           ELSE /\ chats' = chats
                /\ Respond(r, 500)
    /\ UNCHANGED <<users, plants, nextId>> /\ NoEvents /\ EnvUnchanged

\* DELETE /api/chat/:chatId
CloseFind(r) ==
    /\ Running(r, "deleteChat", "handler")
    /\ LET a == ChatAccess(reqs[r])
       IN  IF a # CallNext THEN Respond(r, a) ELSE Goto(r, "close_update")
    /\ DbUnchanged /\ NoEvents /\ EnvUnchanged

CloseUpdate(r) ==
    /\ Running(r, "deleteChat", "close_update")
    /\ LET q == reqs[r]
       IN  /\ chats' = IF q.chatId \in DOMAIN chats
                       THEN UpdateById(chats, q.chatId, Deactivate(chats[q.chatId]))
                       ELSE chats
           /\ Respond(r, 200)
    /\ UNCHANGED <<users, plants, nextId>> /\ NoEvents /\ EnvUnchanged

\* POST /api/chat/:chatId/report
ReportFind(r) ==
    /\ Running(r, "reportChat", "handler")
    /\ LET q == reqs[r]
           a == ChatAccess(q)
       IN  IF q.len < MinReasonLen THEN Respond(r, 400)
           ELSE IF a # CallNext THEN Respond(r, a)
           ELSE Goto(r, "report_update")
    /\ DbUnchanged /\ NoEvents /\ EnvUnchanged

ReportUpdate(r) ==
    /\ Running(r, "reportChat", "report_update")
    /\ LET q == reqs[r]
       IN  /\ chats' = IF q.chatId \in DOMAIN chats
                       THEN UpdateById(chats, q.chatId,
                               Report(chats[q.chatId], q.user.id))
                       ELSE chats
           /\ Respond(r, 200)
    /\ UNCHANGED <<users, plants, nextId>> /\ NoEvents /\ EnvUnchanged

\* ------------------------------------------------------------- user routes
\* Chat.findOne({ plantId, userId }): the first match, or 0 (null)
FindChat(plantId, userId) ==
    LET m == {c \in DOMAIN chats :
                chats[c].plantId = plantId /\ chats[c].userId = userId}
    IN  IF m = {} THEN 0 ELSE CHOOSE c \in m : \A d \in m : c <= d

\* POST /api/user/start-chat: validation and Plant.findById
StartPlant(r) ==
    /\ Running(r, "startChat", "handler")
    /\ LET q == reqs[r]
       IN  IF q.plantId = 0 THEN Respond(r, 400)
           ELSE IF FindById(plants, q.plantId) = 0 \/ ~plants[q.plantId].isActive
           THEN Respond(r, 404)
           ELSE reqs' = [reqs EXCEPT ![r].pc = "start_find",
                                     ![r].targetId = plants[q.plantId].farmerId]
    /\ DbUnchanged /\ NoEvents /\ EnvUnchanged

\* "Check if chat already exists"
StartFind(r) ==
    /\ Running(r, "startChat", "start_find")
    /\ LET q == reqs[r]
           chat == FindChat(q.plantId, q.user.id)
       IN  IF chat = 0 THEN Goto(r, "start_create")
           ELSE reqs' = [reqs EXCEPT ![r] = Answered([q EXCEPT !.chatId = chat], 201)]
    /\ DbUnchanged /\ NoEvents /\ EnvUnchanged

\* Chat.create
StartCreate(r) ==
    /\ Running(r, "startChat", "start_create")
    /\ LET q == reqs[r]
           id == nextId.chat
       IN  /\ chats' = Insert(chats, id,
                          ChatDoc(q.plantId, q.targetId, q.user.id, q.user.role, nreq))
           /\ nextId' = [nextId EXCEPT !.chat = id + 1]
           /\ reqs' = [reqs EXCEPT ![r] = Answered([q EXCEPT !.chatId = id], 201)]
    /\ UNCHANGED <<users, plants>> /\ NoEvents /\ EnvUnchanged

\* groqService.searchPlantsForCondition: { success: true, data } with the
\* suggested plant names, or { success: false } on any failure
GroqResults ==
    {[success |-> FALSE, names |-> {}],
     [success |-> TRUE, names |-> {Neem, Ocimum}]}

\* Plant.find({ isActive: true, $or: [{ naturalName: { $in } }, ...] })
FindByNames(plantNames) ==
    {p \in DOMAIN plants :
        /\ plants[p].isActive
        /\ \/ plants[p].naturalName \in plantNames
           \/ plants[p].scientificName \in plantNames
           \/ plants[p].commonNames \cap plantNames # {}}

\* Plant.find({ isActive: true, $or: [{ naturalName: { $regex, $options: 'i' } }, ...] })
FindByRegex(query) ==
    {p \in DOMAIN plants :
        /\ plants[p].isActive
        /\ \/ Includes(ToLowerCase(plants[p].naturalName), ToLowerCase(query))
           \/ Includes(ToLowerCase(plants[p].scientificName), ToLowerCase(query))
           \/ \E n \in plants[p].commonNames :
                 Includes(ToLowerCase(n), ToLowerCase(query))}

\* POST /api/user/search-plants: validation, the LLM call for a health
\* condition, Plant.find (requests carry no latitude/longitude)
SearchFind(r) ==
    /\ Running(r, "searchPlants", "handler")
    /\ LET q == reqs[r]
           Found(plantsFound) ==
               reqs' = [reqs EXCEPT ![r].results = plantsFound,
                                    ![r].pc = IF plantsFound # {}
                                              THEN "search_views"
                                              ELSE "search_history"]
       IN  IF Len(q.query) < 1 THEN Respond(r, 400)
           ELSE IF isHealthCondition(q.query)
           THEN \E groqResult \in GroqResults :
                   IF groqResult.success
                   THEN Found(FindByNames(groqResult.names))
                   ELSE Found({})
           ELSE Found(FindByRegex(q.query))
    /\ DbUnchanged /\ NoEvents /\ EnvUnchanged

\* Plant.updateMany({ _id: { $in: plantIds } }, { $inc: { viewCount: 1 } })
SearchViews(r) ==
    /\ Running(r, "searchPlants", "search_views")
    /\ plants' = [p \in DOMAIN plants |->
                    IF p \in reqs[r].results
                    THEN [plants[p] EXCEPT !.viewCount = @ + 1]
                    ELSE plants[p]]
    /\ Goto(r, "search_history")
    /\ UNCHANGED <<users, chats, nextId>> /\ NoEvents /\ EnvUnchanged

\* the response of search-plants: aiSuggestions reads groqResult, a const
\* of the if-block of the health-condition branch, outside that block; for
\* a health condition the read throws a ReferenceError, which the handler's
\* catch answers with 500
SearchStatus(query) == IF isHealthCondition(query) THEN 500 ELSE 200

\* User.findByIdAndUpdate(_id, { $push: { searchHistory } }) and the response
SearchHistory(r) ==
    /\ Running(r, "searchPlants", "search_history")
    /\ LET q == reqs[r]
           code == SearchStatus(q.query)
       IN  /\ users' = IF q.user.id \in DOMAIN users
                       THEN [users EXCEPT ![q.user.id].searchHistory =
                               Append(@, [query |-> q.query, results |-> q.results])]
                       ELSE users
           /\ reqs' = [reqs EXCEPT ![r] =
                  [Answered(q, code) EXCEPT
                      !.results = IF code = 200 THEN q.results ELSE {},
                      !.searchType = IF code # 200 THEN "none"
                                     ELSE IF isHealthCondition(q.query)
                                     THEN "condition" ELSE "text"]]
    /\ UNCHANGED <<plants, chats, nextId>> /\ NoEvents /\ EnvUnchanged

\* a validator that lets 'admin' through as well
SyncRoleEnumWithAdmin == {"consumer", "farmer", "admin"}

\* body('role').isIn(['consumer', 'farmer'])
SyncRoleEnum == {"consumer", "farmer"}

\* POST /api/user/sync-role
SyncRole(r) ==
    /\ Running(r, "syncRole", "handler")
    /\ LET q == reqs[r]
       IN  IF q.role \notin SyncRoleEnum
           THEN Respond(r, 400) /\ users' = users
           ELSE IF q.user.id \notin DOMAIN users
           THEN Respond(r, 500) /\ users' = users
           ELSE /\ users' = [users EXCEPT ![q.user.id].role = q.role]
                /\ Respond(r, 200)
    /\ UNCHANGED <<plants, chats, nextId>> /\ NoEvents /\ EnvUnchanged

\* ----------------------------------------------------------- farmer routes
\* POST /api/farmer/save-plant
SavePlant(r) ==
    /\ Running(r, "savePlant", "handler")
    /\ LET q == reqs[r]
           id == nextId.plant
       IN  IF q.len = 0
           THEN Respond(r, 400) /\ UNCHANGED <<plants, nextId>>
           ELSE /\ plants' = Insert(plants, id, PlantDoc(q.user.id))
                /\ nextId' = [nextId EXCEPT !.plant = id + 1]
                /\ Respond(r, 200)
    /\ UNCHANGED <<users, chats>> /\ NoEvents /\ EnvUnchanged

\* farmerOrAutoUpgrade: req.user.role = 'farmer'; await req.user.save(); next().
\* The middleware has no try/catch: a rejected save leaves the request
\* without an answer.
Upgrade(r) ==
    /\ reqs[r].pc = "upgrade"
    /\ LET q == reqs[r]
       IN  IF q.user.id \in DOMAIN users
           THEN /\ users' = [users EXCEPT ![q.user.id].role = "farmer"]
                /\ reqs' = [reqs EXCEPT ![r].pc = "handler",
                                        ![r].user.role = "farmer"]
           ELSE /\ users' = users
                /\ reqs' = [reqs EXCEPT ![r].pc = "hung",
                                        ![r].user.role = "farmer"]
    /\ UNCHANGED <<plants, chats, nextId>> /\ NoEvents /\ EnvUnchanged

\* GET /api/farmer/test-auth
TestAuth(r) ==
    /\ Running(r, "testAuth", "handler")
    /\ Respond(r, 200)
    /\ DbUnchanged /\ NoEvents /\ EnvUnchanged

\* POST /api/farmer/upload-plant: validation, file check, Plant.id
\* identification (len = 0: one of them fails), Plant.create
UploadPlant(r) ==
    /\ Running(r, "uploadPlant", "handler")
    /\ LET q == reqs[r]
           id == nextId.plant
       IN  IF q.len = 0
           THEN Respond(r, 400) /\ UNCHANGED <<plants, nextId>>
           ELSE /\ plants' = Insert(plants, id, PlantDoc(q.user.id))
                /\ nextId' = [nextId EXCEPT !.plant = id + 1]
                /\ IF q.user.role = "user"
                   THEN Goto(r, "upload_role") ELSE Respond(r, 201)
    /\ UNCHANGED <<users, chats>> /\ NoEvents /\ EnvUnchanged

\* if (req.user.role === 'user') User.findByIdAndUpdate(_id, { role: 'farmer' })
UploadRole(r) ==
    /\ Running(r, "uploadPlant", "upload_role")
    /\ users' = IF reqs[r].user.id \in DOMAIN users
                THEN [users EXCEPT ![reqs[r].user.id].role = "farmer"]
                ELSE users
    /\ Respond(r, 201)
    /\ UNCHANGED <<plants, chats, nextId>> /\ NoEvents /\ EnvUnchanged

\* an ownership test that lets everybody through
isOwnerAny(plant, user) == TRUE

\* resource.farmerId.toString() === req.user._id.toString()
isOwner(plant, user) == plant.farmerId = user.id

\* checkOwnership(Plant) of PUT and DELETE /api/farmer/plants/:id
OwnCheck(r) ==
    /\ reqs[r].route \in {"farmerUpdatePlant", "farmerDeletePlant"}
    /\ reqs[r].pc = "handler"
    /\ LET q == reqs[r]
           next == IF q.route = "farmerDeletePlant"
                   THEN "plant_delete" ELSE "plant_update"
       IN  IF FindById(plants, q.plantId) = 0 THEN Respond(r, 404)
           ELSE IF q.user.role = "admin" THEN Goto(r, next)
           ELSE IF ~isOwner(plants[q.plantId], q.user) THEN Respond(r, 403)
           ELSE Goto(r, next)
    /\ DbUnchanged /\ NoEvents /\ EnvUnchanged

\* PUT /api/farmer/plants/:id: validation, Plant.findByIdAndUpdate
FarmerUpdate(r) ==
    /\ Running(r, "farmerUpdatePlant", "plant_update")
    /\ LET q == reqs[r]
       IN  IF q.len < MinDescriptionLen
           THEN Respond(r, 400) /\ plants' = plants
           ELSE /\ plants' = IF q.plantId \in DOMAIN plants
                             THEN [plants EXCEPT
                                     ![q.plantId].ayurvedicDescription = q.len]
                             ELSE plants
                /\ Respond(r, 200)
    /\ UNCHANGED <<users, chats, nextId>> /\ NoEvents /\ EnvUnchanged

\* Plant.findByIdAndDelete of DELETE /api/farmer/plants/:id
FarmerDelete(r) ==
    /\ Running(r, "farmerDeletePlant", "plant_delete")
    /\ plants' = IF reqs[r].plantId \in DOMAIN plants
                 THEN Remove(plants, reqs[r].plantId) ELSE plants
    /\ Respond(r, 200)
    /\ UNCHANGED <<users, chats, nextId>> /\ NoEvents /\ EnvUnchanged

\* ------------------------------------------------------------ admin routes
\* Chat.updateMany(filter, { isActive: false })
DeactivateMany(coll, matching) ==
    [c \in DOMAIN coll |-> IF c \in matching THEN Deactivate(coll[c]) ELSE coll[c]]

\* DELETE /api/admin/users/:id: User.findById, the ADMIN_EMAIL guard
AdmUserFind(r) ==
    /\ Running(r, "adminDeleteUser", "handler")
    /\ LET q == reqs[r]
       IN  IF FindById(users, q.targetId) = 0 THEN Respond(r, 404)
           ELSE IF users[q.targetId].email = ADMIN_EMAIL THEN Respond(r, 400)
           ELSE Goto(r, "admu_plants")
    /\ DbUnchanged /\ NoEvents /\ EnvUnchanged

\* Plant.deleteMany({ farmerId: user._id })
AdmUserPlants(r) ==
    /\ Running(r, "adminDeleteUser", "admu_plants")
    /\ plants' = [p \in {x \in DOMAIN plants :
                           plants[x].farmerId # reqs[r].targetId} |-> plants[p]]
    /\ Goto(r, "admu_chats")
    /\ UNCHANGED <<users, chats, nextId>> /\ NoEvents /\ EnvUnchanged

\* Chat.updateMany({ $or: [{ farmerId }, { userId }] }, { isActive: false })
AdmUserChats(r) ==
    /\ Running(r, "adminDeleteUser", "admu_chats")
    /\ LET matching == {c \in DOMAIN chats : chats[c].farmerId = reqs[r].targetId
                                                \/ chats[c].userId = reqs[r].targetId}
       IN  chats' = DeactivateMany(chats, matching)
    /\ Goto(r, "admu_delete")
    /\ UNCHANGED <<users, plants, nextId>> /\ NoEvents /\ EnvUnchanged

\* User.findByIdAndDelete
AdmUserDelete(r) ==
    /\ Running(r, "adminDeleteUser", "admu_delete")
    /\ users' = IF reqs[r].targetId \in DOMAIN users
                THEN Remove(users, reqs[r].targetId) ELSE users
    /\ Respond(r, 200)
    /\ UNCHANGED <<plants, chats, nextId>> /\ NoEvents /\ EnvUnchanged

\* DELETE /api/admin/plants/:id: Plant.findById
AdmPlantFind(r) ==
    /\ Running(r, "adminDeletePlant", "handler")
    /\ IF FindById(plants, reqs[r].plantId) = 0
       THEN Respond(r, 404) ELSE Goto(r, "admp_chats")
    /\ DbUnchanged /\ NoEvents /\ EnvUnchanged

\* Chat.updateMany({ plantId }, { isActive: false })
AdmPlantChats(r) ==
    /\ Running(r, "adminDeletePlant", "admp_chats")
    /\ LET matching == {c \in DOMAIN chats : chats[c].plantId = reqs[r].plantId}
       IN  chats' = DeactivateMany(chats, matching)
    /\ Goto(r, "admp_delete")
    /\ UNCHANGED <<users, plants, nextId>> /\ NoEvents /\ EnvUnchanged

\* Plant.findByIdAndDelete
AdmPlantDelete(r) ==
    /\ Running(r, "adminDeletePlant", "admp_delete")
    /\ plants' = IF reqs[r].plantId \in DOMAIN plants
                 THEN Remove(plants, reqs[r].plantId) ELSE plants
    /\ Respond(r, 200)
    /\ UNCHANGED <<users, chats, nextId>> /\ NoEvents /\ EnvUnchanged

\* Chat.findByIdAndUpdate(id, { isReported: false, adminNotes })
Resolve(chat) == [chat EXCEPT !.isReported = FALSE]

\* PUT /api/admin/chats/:id/resolve-report
AdmResolve(r) ==
    /\ Running(r, "adminResolveReport", "handler")
    /\ LET q == reqs[r]
       IN  IF q.chatId \in DOMAIN chats
           THEN chats' = UpdateById(chats, q.chatId, Resolve(chats[q.chatId]))
                /\ Respond(r, 200)
           ELSE chats' = chats /\ Respond(r, 404)
    /\ UNCHANGED <<users, plants, nextId>> /\ NoEvents /\ EnvUnchanged

\* DELETE /api/admin/chats/:id
AdmDeleteChat(r) ==
    /\ Running(r, "adminDeleteChat", "handler")
    /\ LET q == reqs[r]
       IN  IF q.chatId \in DOMAIN chats
           THEN chats' = Remove(chats, q.chatId) /\ Respond(r, 200)
           ELSE chats' = chats /\ Respond(r, 404)
    /\ UNCHANGED <<users, plants, nextId>> /\ NoEvents /\ EnvUnchanged

\* PUT /api/admin/users/:id/role
AdmSetRole(r) ==
    /\ Running(r, "adminSetRole", "handler")
    /\ LET q == reqs[r]
       IN  IF q.role \notin {"user", "farmer", "admin"}
           THEN Respond(r, 400) /\ users' = users
           ELSE IF q.targetId \notin DOMAIN users
           THEN Respond(r, 404) /\ users' = users
           ELSE /\ users' = [users EXCEPT ![q.targetId].role = q.role]
                /\ Respond(r, 200)
    /\ UNCHANGED <<plants, chats, nextId>> /\ NoEvents /\ EnvUnchanged

\* ------------------------------------------------------- Socket.io server
SocketIds == {1, 2, 3}
RoomIds == {1}

\* the HTTP state, which the socket handlers never touch
HttpUnchanged ==
    UNCHANGED <<users, plants, chats, nextId, reqs, nreq, emitted, acked,
                workload, clientVars>>

\* socket.on('join-chat', chatId => socket.join(chatId))
JoinChat(t, c) ==
    /\ workload = "socket"
    /\ rooms' = [rooms EXCEPT ![c] = @ \cup {t}]
    /\ UNCHANGED <<sent, inbox>> /\ HttpUnchanged

\* socket.on('leave-chat', chatId => socket.leave(chatId))
LeaveChat(t, c) ==
    /\ workload = "socket"
    /\ rooms' = [rooms EXCEPT ![c] = @ \ {t}]
    /\ UNCHANGED <<sent, inbox>> /\ HttpUnchanged

\* a broadcast that does not leave the sender out: io.to(room)
RecipientsWithSender(t, c) == rooms[c]

\* socket.to(room): the sockets of the room, except the emitting socket
Recipients(t, c) == rooms[c] \ {t}

\* socket.to(chatId).emit(event, ...): sent at once to the current members
Broadcast(t, c, event) ==
    /\ workload = "socket"
    /\ Len(sent) < MaxEvents
    /\ sent' = Append(sent, [from |-> t, chatId |-> c, event |-> event])
    /\ inbox' = [x \in SocketIds |->
                   IF x \in Recipients(t, c)
                   THEN Append(inbox[x], [event |-> event, chatId |-> c,
                                          n |-> Len(sent) + 1])
                   ELSE inbox[x]]
    /\ UNCHANGED rooms /\ HttpUnchanged

\* socket.on('send-message', data => socket.to(data.chatId).emit('receive-message', data))
SocketSendMessage(t, c) == Broadcast(t, c, "receive-message")

\* socket.on('typing-start', ...)
TypingStart(t, c) == Broadcast(t, c, "typing-start")

\* socket.on('typing-stop', ...)
TypingStop(t, c) == Broadcast(t, c, "typing-stop")

\* socket.on('disconnect'): the handler logs, Socket.io takes the socket
\* out of its rooms
Disconnect(t, c) ==
    /\ workload = "socket"
    /\ t \in rooms[c]
    /\ rooms' = [r \in RoomIds |-> rooms[r] \ {t}]
    /\ UNCHANGED <<sent, inbox>> /\ HttpUnchanged

\* ------------------------------------------------------------ the clients
Req(route, header) == [Idle EXCEPT !.route = route, !.header = header]

ChatIds == {1, 2}
PlantIds == {1, 2}
UserIds == {1, 2, 3}
MessageIds == {1, 2}

\* search queries: none, 'Fever', 'tul'
Queries == {<<>>, <<"F","e","v","e","r">>, <<"t","u","l">>}

\* every route of the API with its parameters, for one Authorization header
RequestsOf(h) ==
    {[Req(rt, h) EXCEPT !.chatId = c] :
        rt \in {"getChat", "deleteChat", "adminResolveReport", "adminDeleteChat"},
        c \in ChatIds}
    \cup {[Req("sendMessage", h) EXCEPT !.chatId = c, !.len = n] :
        c \in ChatIds, n \in {0, 1, MaxMessageLen + 1}}
    \cup {[Req("markRead", h) EXCEPT !.chatId = c, !.targetId = m] :
        c \in ChatIds, m \in MessageIds}
    \cup {[Req("reportChat", h) EXCEPT !.chatId = c, !.len = n] :
        c \in ChatIds, n \in {MinReasonLen - 1, MinReasonLen}}
    \cup {[Req(rt, h) EXCEPT !.plantId = p] :
        rt \in {"startChat", "adminDeletePlant", "farmerDeletePlant"},
        p \in PlantIds}
    \cup {[Req("farmerUpdatePlant", h) EXCEPT !.plantId = p, !.len = n] :
        p \in PlantIds, n \in {MinDescriptionLen - 1, MinDescriptionLen + 1}}
    \cup {[Req("uploadPlant", h) EXCEPT !.len = n] : n \in {0, 1}}
    \cup {[Req("searchPlants", h) EXCEPT !.query = x] : x \in Queries}
    \cup {[Req("startChat", h) EXCEPT !.plantId = 0]}
    \cup {[Req("syncRole", h) EXCEPT !.role = x] :
        x \in {"consumer", "farmer", "admin"}}
    \cup {[Req("savePlant", h) EXCEPT !.len = n] : n \in {0, 1}}
    \cup {[Req("adminDeleteUser", h) EXCEPT !.targetId = u] : u \in UserIds}
    \cup {[Req("adminSetRole", h) EXCEPT !.targetId = 3, !.role = x] :
        x \in {"user", "farmer", "admin", "consumer"}}
    \cup {Req("testAuth", h)}

\* the requests of the signed-in clients: admin, farmer, consumer, newcomer
SignedIn ==
    UNION {RequestsOf(Bearer(Jwt(seg))) : seg \in {<<"A">>, <<"F">>, <<"C">>, <<"N">>}}

\* signed-in clients using the chat API, one request at a time
ChatRequests ==
    {q \in SignedIn :
        q.route \in ChatRoutes \cup {"startChat", "syncRole",
                                     "adminResolveReport", "adminDeleteChat"}}

\* signed-in clients using the plant, search and user-administration API,
\* one request at a time
FarmRequests ==
    {q \in SignedIn :
        q.route \in FarmerRoutes \cup {"savePlant", "searchPlants",
                                       "adminDeleteUser", "adminDeletePlant",
                                       "adminSetRole"}}

\* clients racing on one chat and one plant
RaceRequests ==
    {q \in UNION {RequestsOf(Bearer(Jwt(seg))) : seg \in {<<"F">>, <<"C">>}} :
        \/ q.route = "startChat" /\ q.plantId = 1
        \/ q.route = "sendMessage" /\ q.chatId = 1 /\ q.len = 1
        \/ q.route = "getChat" /\ q.chatId = 1}
    \cup {q \in RequestsOf(Bearer(Jwt(<<"A">>))) :
        q.route = "adminDeleteChat" /\ q.chatId = 1}

\* clients probing authentication with every kind of Authorization header
AuthRequests ==
    {q \in UNION {RequestsOf(h) : h \in Headers} :
        \/ q.route = "testAuth"
        \/ q.route = "syncRole" /\ q.role = "farmer"}

\* an admin deleting consumer c1 while c1's own requests are in flight
CascadeRequests ==
    {q \in RequestsOf(Bearer(Jwt(<<"A">>))) :
        q.route = "adminDeleteUser" /\ q.targetId = 3}
    \cup {q \in RequestsOf(Bearer(Jwt(<<"C">>))) :
        \/ q.route = "savePlant" /\ q.len = 1
        \/ q.route = "startChat" /\ q.plantId = 1
        \/ q.route = "testAuth"}

Workloads == {"chat", "farm", "race", "auth", "cascade", "socket"}

Requests(w) ==
    CASE w = "chat" -> ChatRequests
      [] w = "farm" -> FarmRequests
      [] w = "race" -> RaceRequests
      [] w = "cascade" -> CascadeRequests
      [] w = "socket" -> {}
      [] OTHER -> AuthRequests

Concurrency(w) == IF w \in {"race", "cascade"} THEN MaxInFlight ELSE 1

\* a client sends a request; it enters authenticateUser
Receive(r) ==
    /\ nreq < MaxRequests
    /\ r <= Concurrency(workload)
    /\ reqs[r].pc \in {"idle", "done"}
    /\ \E q \in Requests(workload) :
          reqs' = [reqs EXCEPT ![r] = [q EXCEPT !.pc = "auth", !.rid = nreq + 1]]
    /\ nreq' = nreq + 1
    /\ UNCHANGED <<users, plants, chats, nextId, emitted, acked, workload,
                   rooms, sent, inbox, clientVars>>

\* ------------------------------------------------------------------- system
SeedUsers ==
    <<UserDoc(<<"a", "1">>, <<"admin@x">>, "admin"),
      UserDoc(<<"f", "1">>, <<"farmer@x">>, "farmer"),
      UserDoc(<<"c", "1">>, <<"cons@x">>, "consumer")>>

SeedPlants == <<PlantDoc(2)>>

\* the chat start-chat creates for consumer 3 about plant 1
SeedChats == <<ChatDoc(1, 2, 3, "consumer", 0)>>

\* the same chat after farmer f1 sent a message consumer c1 has not read
UnreadChats ==
    <<PushMessage(SeedChats[1],
                  NewMessage([Idle EXCEPT !.user = [NoUser EXCEPT !.id = 2,
                                                                 !.role = "farmer"]]),
                  "user", 0)>>

\* =================================================== browser: landing page
\* frontend/client/pages/Index.tsx.  An event (Clerk finishes loading, a
\* click, a promise settling) with the renders and effects it causes is one
\* step.

\* user.primaryEmailAddress compared in the navigation effect
IndexAdminEmail == <<"aravindsrksrk1399@gmail.com">>
Emails == {IndexAdminEmail, ADMIN_EMAIL, <<"farmer@x">>, <<"cons@x">>}

\* localStorage.getItem("ayurmap_role"): null or a Role
StoredRoles == {"null", "Farmer", "Consumer"}

\* the page as mounted, before Clerk has loaded
IndexMount(stored) ==
    [isLoaded |-> FALSE, isSignedIn |-> FALSE, email |-> <<>>,
     ayurmap_role |-> stored, selectedRole |-> "null",
     openRoleModal |-> FALSE, showAuth |-> FALSE,
     isNavigating |-> FALSE, roleSynced |-> FALSE,
     sync |-> "idle", backendRole |-> "none", location |-> "/"]

\* the navigation effect
NavigationEffect(p) ==
    IF ~p.isLoaded \/ ~p.isSignedIn \/ p.isNavigating THEN p
    ELSE LET storedRole == IF p.ayurmap_role # "null" THEN p.ayurmap_role
                           ELSE p.selectedRole
         IN  IF ~p.roleSynced /\ storedRole # "null" THEN p
             ELSE LET q == [p EXCEPT !.isNavigating = TRUE]
                  IN  IF p.email = IndexAdminEmail
                      THEN [q EXCEPT !.location = "/admin"]
                      ELSE IF storedRole = "Farmer"
                      THEN [q EXCEPT !.location = "/farmer"]
                      ELSE IF storedRole = "Consumer"
                      THEN [q EXCEPT !.location = "/user"]
                      ELSE q

\* the sync effect: syncRoleToBackend up to its first await
SyncEffect(p) ==
    IF ~p.isLoaded \/ ~p.isSignedIn THEN p
    ELSE IF p.ayurmap_role = "null" THEN [p EXCEPT !.roleSynced = TRUE]
    ELSE [p EXCEPT !.sync = "token"]

\* the effects after isLoaded, isSignedIn or user changed, in source order,
\* then the navigation effect of the render the state updates cause
AuthEffects(p) == NavigationEffect(SyncEffect(NavigationEffect(p)))

\* the loading screen is rendered in place of the landing content
LoadingScreen(p) ==
    \/ ~p.isLoaded
    \/ p.isNavigating
    \/ p.isSignedIn /\ ~p.roleSynced /\ p.ayurmap_role # "null"

\* the page is still mounted
OnIndex == index.location = "/"

IndexFrame ==
    UNCHANGED <<users, plants, chats, nextId, reqs, nreq, emitted, acked,
                workload, rooms, sent, inbox, useChat, sockets, timers, fetches>>

\* useUser(): Clerk has loaded, with or without a session
ClerkLoaded ==
    /\ OnIndex /\ ~index.isLoaded
    /\ \/ index' = AuthEffects([index EXCEPT !.isLoaded = TRUE])
       \/ \E e \in Emails :
             index' = AuthEffects([index EXCEPT !.isLoaded = TRUE,
                                                !.isSignedIn = TRUE, !.email = e])
    /\ IndexFrame

\* 'Get Started': setOpenRoleModal(true)
GetStarted ==
    /\ OnIndex /\ ~LoadingScreen(index) /\ ~index.openRoleModal
    /\ index' = [index EXCEPT !.openRoleModal = TRUE]
    /\ IndexFrame

\* the dialog is closed: onOpenChange(false)
CloseRoleModal ==
    /\ OnIndex /\ ~LoadingScreen(index) /\ index.openRoleModal
    /\ index' = [index EXCEPT !.openRoleModal = FALSE]
    /\ IndexFrame

handleSelectRole(role) ==
    /\ OnIndex /\ ~LoadingScreen(index)
    /\ index.openRoleModal /\ ~index.showAuth
    /\ index' = NavigationEffect([index EXCEPT !.selectedRole = role,
                                               !.ayurmap_role = role,
                                               !.showAuth = TRUE])
    /\ IndexFrame

\* the user signs in with the <SignIn> of the dialog
SignedInHere ==
    /\ OnIndex /\ ~LoadingScreen(index)
    /\ index.openRoleModal /\ index.showAuth /\ ~index.isSignedIn
    /\ \E e \in Emails :
          index' = AuthEffects([index EXCEPT !.isSignedIn = TRUE, !.email = e])
    /\ IndexFrame

\* syncRoleToBackend: getToken resolved, the fetch is issued
SyncToken ==
    /\ OnIndex /\ index.sync = "token"
    /\ index' = [index EXCEPT
                   !.sync = "fetch",
                   !.backendRole = IF index.ayurmap_role = "Farmer"
                                   THEN "farmer" ELSE "consumer"]
    /\ IndexFrame

\* POST /api/user/sync-role for the account of the signed-in user
SyncedUsers(email, role) ==
    [u \in DOMAIN users |->
        IF users[u].email = email THEN [users[u] EXCEPT !.role = role]
        ELSE users[u]]

\* syncRoleToBackend: the server answers; response.ok or not,
\* setRoleSynced(true) either way
SyncAnswered ==
    /\ OnIndex /\ index.sync = "fetch"
    /\ \/ /\ users' = SyncedUsers(index.email, index.backendRole)
          /\ index' = NavigationEffect([index EXCEPT !.sync = "synced",
                                                     !.roleSynced = TRUE])
       \/ /\ users' = users
          /\ index' = NavigationEffect([index EXCEPT !.sync = "refused",
                                                     !.roleSynced = TRUE])
    /\ UNCHANGED <<plants, chats, nextId, reqs, nreq, emitted, acked,
                   workload, rooms, sent, inbox, useChat, sockets, timers,
                   fetches>>

\* syncRoleToBackend: getToken or fetch rejects, the catch
SyncThrows ==
    /\ OnIndex /\ index.sync \in {"token", "fetch"}
    /\ index' = NavigationEffect([index EXCEPT !.sync = "failed",
                                               !.roleSynced = TRUE])
    /\ IndexFrame

\* ======================================================= browser: useChat
\* frontend/client/hooks/usePlants.ts, useChat({ chatId, isAdmin }): one
\* mounted hook.  A React commit (cleanup of the effects whose dependencies
\* changed, then the effects) is one step, an event handler is one step, and
\* an awaited call (getToken, apiCall) is a step of its own.  The server is
\* the chat API above, each request served in one step.  The typing events
\* only set isTyping and are left out.

\* effect runs of the socket effect, over the life of the hook
MaxSockets == 2
\* messages posted to the chats, over the life of the hook
MaxPosts == 2
\* setInterval timers alive at one time
MaxTimers == 2
\* HTTP calls of the hook in flight at one time
MaxFetches == 1

\* the _id of an object that has no _id field
Undefined == 0

\* a message of data.data.messages: the stored subdocument with its _id
StoredMessage(m) ==
    [_id |-> m.id, message |-> m.message, senderId |-> m.senderId,
     isRead |-> m.isRead]

\* newMessage of POST /:chatId/messages as JSON: the plain object the handler
\* built, in the response body and in the 'receive-message' event alike
MessagePayload(m) ==
    [_id |-> Undefined, message |-> m.message, senderId |-> m.senderId,
     isRead |-> m.isRead]

\* the hook after useState / useRef, before any effect
Mount(isAdmin) ==
    [chatId |-> 0, isAdmin |-> isAdmin, messages |-> <<>>,
     isConnected |-> FALSE, isPolling |-> FALSE,
     socketRef |-> 0, pollingIntervalRef |-> 0]

\* the signed-in user of the browser and the other participant of its chats
BrowserUser(isAdmin) ==
    IF isAdmin THEN [NoUser EXCEPT !.id = 1, !.role = "admin"]
    ELSE [NoUser EXCEPT !.id = 3, !.role = "consumer"]
PeerUser == [NoUser EXCEPT !.id = 2, !.role = "farmer"]

\* the client state a handler works on: the hook, the timers, the HTTP calls
Client == [h |-> useChat, t |-> timers, f |-> fetches]

\* apiCall(url, { method }, token) just issued
Call(kind, chatId) ==
    [kind |-> kind, chatId |-> chatId, messageId |-> 0, pc |-> "sent",
     body |-> <<>>]

\* setInterval returns an id no live timer and no held reference has
FreshTimer(st) ==
    CHOOSE n \in 1..(MaxTimers + 1) :
        /\ n # st.h.pollingIntervalRef
        /\ \A x \in st.t : x.id # n
        /\ \A k \in 1..(n - 1) :
              k = st.h.pollingIntervalRef \/ \E x \in st.t : x.id = k

clearInterval(st, id) == [st EXCEPT !.t = {x \in @ : x.id # id}]

\* startPolling of the render whose chatId is c
startPolling(st, c) ==
    IF st.h.pollingIntervalRef # 0 \/ c = 0 THEN st
    ELSE LET id == FreshTimer(st)
         IN  [h |-> [st.h EXCEPT !.isPolling = TRUE, !.pollingIntervalRef = id],
              t |-> st.t \cup {[id |-> id, chatId |-> c]},
              f |-> st.f \cup {Call("poll", c)}]

\* prev.some(m => m._id === newMessage._id) ? prev : [...prev, newMessage]
AppendUnlessExists(prev, newMessage) ==
    IF \E i \in DOMAIN prev : prev[i]._id = newMessage._id
    THEN prev ELSE Append(prev, newMessage)

\* socketRef.current.on('disconnect', ...) of a socket created for chat c
onDisconnect(st, c) ==
    startPolling([st EXCEPT !.h.isConnected = FALSE], c)

\* the return function of the socket effect
Cleanup(st) ==
    LET s == st.h.socketRef
        a == IF s # 0 /\ sockets[s].state = "connected"
             THEN onDisconnect(st, sockets[s].chatId) ELSE st
        b == [a EXCEPT !.h.socketRef = 0]
    IN  IF b.h.pollingIntervalRef # 0
        THEN clearInterval(b, b.h.pollingIntervalRef) ELSE b

Commit(st) ==
    /\ useChat' = st.h
    /\ timers' = st.t
    /\ fetches' = st.f

\* the server and the other components, which a step of the hook leaves alone
BrowserFrame ==
    UNCHANGED <<users, plants, nextId, reqs, nreq, emitted, acked, workload,
                rooms, sent, inbox, index>>

\* the page passes another chatId: cleanup of the socket effect, then the
\* load effect and the socket effect of the new render
SelectChat(c) ==
    /\ c # useChat.chatId
    /\ c = 0 \/ useChat.isAdmin \/ Len(sockets) < MaxSockets
    /\ Cardinality(timers) < MaxTimers
    /\ Cardinality(fetches) < MaxFetches
    /\ LET ran == useChat.chatId # 0 /\ ~useChat.isAdmin
           s == useChat.socketRef
           st == IF ran THEN Cleanup(Client) ELSE Client
           closed == IF ran /\ s # 0
                     THEN [sockets EXCEPT ![s].state = "closed",
                                          ![s].rooms = {}, ![s].queue = <<>>]
                     ELSE sockets
       IN  /\ Commit([st EXCEPT !.h.chatId = c,
                                !.f = IF c # 0 THEN @ \cup {Call("load", c)} ELSE @])
           /\ sockets' = IF c # 0 /\ ~useChat.isAdmin
                         THEN Append(closed, [chatId |-> c, state |-> "token",
                                              failed |-> FALSE, rooms |-> {},
                                              queue |-> <<>>])
                         ELSE closed
    /\ UNCHANGED chats /\ BrowserFrame

\* initSocket: getToken resolved, socketRef.current = io(...), handlers set
TokenResolved(i) ==
    /\ i \in DOMAIN sockets
    /\ sockets[i].state = "token"
    /\ sockets' = [sockets EXCEPT ![i].state = "connecting"]
    /\ useChat' = [useChat EXCEPT !.socketRef = i]
    /\ UNCHANGED <<timers, fetches, chats>> /\ BrowserFrame

\* initSocket: getToken rejected, the catch starts polling
TokenRejected(i) ==
    /\ i \in DOMAIN sockets
    /\ sockets[i].state = "token"
    /\ Cardinality(timers) < MaxTimers
    /\ Cardinality(fetches) < MaxFetches
    /\ sockets' = [sockets EXCEPT ![i].state = "closed", ![i].failed = TRUE]
    /\ Commit(startPolling(Client, sockets[i].chatId))
    /\ UNCHANGED chats /\ BrowserFrame

\* socketRef.current.on('connect', ...): the join-chat is emitted on the
\* socket socketRef.current holds, for the chatId of the handler's render
SocketConnect(i) ==
    /\ i \in DOMAIN sockets
    /\ sockets[i].state = "connecting"
    /\ LET a == [Client EXCEPT !.h.isConnected = TRUE, !.h.isPolling = FALSE]
           b == IF a.h.pollingIntervalRef # 0
                THEN [clearInterval(a, a.h.pollingIntervalRef)
                         EXCEPT !.h.pollingIntervalRef = 0]
                ELSE a
           up == [sockets EXCEPT ![i].state = "connected", ![i].failed = FALSE]
           s == useChat.socketRef
       IN  /\ Commit(b)
           /\ sockets' = IF s # 0 /\ up[s].state # "closed"
                         THEN [up EXCEPT ![s].rooms = @ \cup {sockets[i].chatId}]
                         ELSE up
    /\ UNCHANGED chats /\ BrowserFrame

\* socketRef.current.on('connect_error', ...)
SocketConnectError(i) ==
    /\ i \in DOMAIN sockets
    /\ sockets[i].state = "connecting"
    /\ Cardinality(timers) < MaxTimers
    /\ Cardinality(fetches) < MaxFetches
    /\ sockets' = [sockets EXCEPT ![i].failed = TRUE]
    /\ Commit(startPolling([Client EXCEPT !.h.isConnected = FALSE],
                           sockets[i].chatId))
    /\ UNCHANGED chats /\ BrowserFrame

\* the connection is lost: the server drops the socket from its rooms, the
\* client runs the 'disconnect' handler and starts to reconnect
SocketDisconnect(i) ==
    /\ i \in DOMAIN sockets
    /\ sockets[i].state = "connected"
    /\ Cardinality(timers) < MaxTimers
    /\ Cardinality(fetches) < MaxFetches
    /\ sockets' = [sockets EXCEPT ![i].state = "connecting", ![i].failed = TRUE,
                                  ![i].rooms = {}, ![i].queue = <<>>]
    /\ Commit(onDisconnect(Client, sockets[i].chatId))
    /\ UNCHANGED chats /\ BrowserFrame

\* socketRef.current.on('receive-message', ...)
ReceiveMessage(i) ==
    /\ i \in DOMAIN sockets
    /\ sockets[i].state = "connected"
    /\ sockets[i].queue # <<>>
    /\ useChat' = [useChat EXCEPT
                     !.messages = AppendUnlessExists(@, Head(sockets[i].queue))]
    /\ sockets' = [sockets EXCEPT ![i].queue = Tail(@)]
    /\ UNCHANGED <<timers, fetches, chats>> /\ BrowserFrame

\* setInterval(fetchMessages, 3000): a timer fires
Tick(x) ==
    /\ x \in timers
    /\ Cardinality(fetches) < MaxFetches
    /\ fetches' = fetches \cup {Call("poll", x.chatId)}
    /\ UNCHANGED <<useChat, sockets, timers, chats>> /\ BrowserFrame

\* the messages posted so far, the calls not yet served included
Posts ==
    LET RECURSIVE Sum(_)
        Sum(n) == IF n = 0 THEN 0 ELSE Len(chats[n].messages) + Sum(n - 1)
    IN  Sum(Len(chats)) + Cardinality({f \in fetches : f.kind = "send" /\ f.pc = "sent"})

\* sendMessage(messageText) with a non-empty text
HookSendMessage ==
    /\ useChat.chatId # 0
    /\ Cardinality(fetches) < MaxFetches
    /\ Posts < MaxPosts
    /\ fetches' = fetches \cup {Call("send", useChat.chatId)}
    /\ UNCHANGED <<useChat, sockets, timers, chats>> /\ BrowserFrame

\* io.to(chatId).emit('receive-message', { message: newMessage }): to every
\* connected socket in the room
Deliver(socks, c, msg) ==
    [i \in DOMAIN socks |->
        IF socks[i].state = "connected" /\ c \in socks[i].rooms
        THEN [socks[i] EXCEPT !.queue = Append(@, MessagePayload(msg))]
        ELSE socks[i]]

\* POST /api/chat/:chatId/messages by a participant, served: the $push, the
\* emit, the 201 body
Post(c, user, n) ==
    LET msg == NewMessage([Idle EXCEPT !.rid = n, !.user = user])
    IN  /\ chats' = UpdateById(chats, c,
                       PushMessage(chats[c], msg, incField(user), n))
        /\ sockets' = Deliver(sockets, c, msg)

\* GET /api/chat/:chatId of the browser's user, served
ServeGet(f) ==
    /\ f \in fetches /\ f.pc = "sent" /\ f.kind \in {"load", "poll"}
    /\ LET field == unreadField(BrowserUser(useChat.isAdmin))
           chat == chats[f.chatId]
       IN  /\ chats' = IF chat.unreadCount[field] > 0
                       THEN UpdateById(chats, f.chatId, ResetUnread(chat, field))
                       ELSE chats
           /\ fetches' = (fetches \ {f}) \cup
                 {[f EXCEPT !.pc = "answered",
                            !.body = [i \in DOMAIN chat.messages |->
                                         StoredMessage(chat.messages[i])]]}
    /\ UNCHANGED <<useChat, sockets, timers>> /\ BrowserFrame

\* loadMessages / fetchMessages: setMessages(data.data.messages || [])
ApplyGet(f) ==
    /\ f \in fetches /\ f.pc = "answered" /\ f.kind \in {"load", "poll"}
    /\ useChat' = [useChat EXCEPT !.messages = f.body]
    /\ fetches' = fetches \ {f}
    /\ UNCHANGED <<sockets, timers, chats>> /\ BrowserFrame

\* the browser's POST /api/chat/:chatId/messages, served
ServePost(f) ==
    /\ f \in fetches /\ f.pc = "sent" /\ f.kind = "send"
    /\ LET n == Posts
           msg == NewMessage([Idle EXCEPT !.rid = n,
                                          !.user = BrowserUser(useChat.isAdmin)])
       IN  /\ Post(f.chatId, BrowserUser(useChat.isAdmin), n)
           /\ fetches' = (fetches \ {f}) \cup
                 {[f EXCEPT !.pc = "answered", !.body = <<MessagePayload(msg)>>]}
    /\ UNCHANGED <<useChat, timers>> /\ BrowserFrame

\* sendMessage after response.ok: the message is added locally
ApplySend(f) ==
    /\ f \in fetches /\ f.pc = "answered" /\ f.kind = "send"
    /\ useChat' = [useChat EXCEPT
                     !.messages = AppendUnlessExists(@, f.body[1])]
    /\ fetches' = fetches \ {f}
    /\ UNCHANGED <<sockets, timers, chats>> /\ BrowserFrame

\* the call throws or is answered with an error: nothing is applied
FetchFails(f) ==
    /\ f \in fetches /\ f.pc = "sent"
    /\ fetches' = fetches \ {f}
    /\ UNCHANGED <<useChat, sockets, timers, chats>> /\ BrowserFrame

\* the other participant posts a message to chat c
PeerPost(c) ==
    /\ Posts < MaxPosts
    /\ Post(c, PeerUser, Posts + 1)
    /\ UNCHANGED <<useChat, timers, fetches>> /\ BrowserFrame

\* the two chats of consumer c1 with farmer f1
BrowserChats == <<ChatDoc(1, 2, 3, "consumer", 0), ChatDoc(2, 2, 3, "consumer", 0)>>

HookInit ==
    /\ workload = "browser"
    /\ users = SeedUsers
    /\ plants = <<PlantDoc(2), PlantDoc(2)>>
    /\ chats = BrowserChats
    /\ nextId = [user |-> Len(users) + 1, plant |-> Len(plants) + 1,
                 chat |-> Len(chats) + 1]
    /\ reqs = [r \in Slots |-> Idle]
    /\ nreq = 0
    /\ emitted = <<>>
    /\ acked = {}
    /\ rooms = [c \in RoomIds |-> {}]
    /\ sent = <<>>
    /\ inbox = [t \in SocketIds |-> <<>>]
    /\ useChat \in {Mount(a) : a \in BOOLEAN}
    /\ sockets = <<>>
    /\ timers = {}
    /\ fetches = {}
    /\ index = IndexMount("null")

\* a step of one of the timers, of one of the HTTP calls in flight
TimerFires == \E x \in timers : Tick(x)
GetServed == \E f \in fetches : ServeGet(f)
GetApplied == \E f \in fetches : ApplyGet(f)
PostServed == \E f \in fetches : ServePost(f)
SendApplied == \E f \in fetches : ApplySend(f)
CallFails == \E f \in fetches : FetchFails(f)

HookNext ==
    \/ \E c \in {0} \cup DOMAIN BrowserChats : SelectChat(c)
    \/ \E i \in 1..MaxSockets :
        \/ TokenResolved(i)
        \/ TokenRejected(i)
        \/ SocketConnect(i)
        \/ SocketConnectError(i)
        \/ SocketDisconnect(i)
        \/ ReceiveMessage(i)
    \/ TimerFires
    \/ HookSendMessage
    \/ GetServed
    \/ GetApplied
    \/ PostServed
    \/ SendApplied
    \/ CallFails
    \/ \E c \in DOMAIN BrowserChats : PeerPost(c)

HookSpec == HookInit /\ [][HookNext]_vars

\* ================================================ browser: polling useChat
\* frontend/client/hooks/useChat.ts, useChat({ chatId, isAdmin }), the hook
\* of ChatWindow: the same state and refs as the hook above, no socket.  The
\* typing interval only sets otherPersonTyping and is left out.

\* HTTP calls of the polling hook in flight at one time
MaxPollCalls == 3

\* loadMessages of the render whose chatId is c
loadMessages(st, c) ==
    IF c = 0 THEN [st EXCEPT !.h.messages = <<>>]
    ELSE [st EXCEPT !.f = @ \cup {Call("load", c)}]

\* startPolling of the render whose chatId is c: a held interval is cleared,
\* fetchMessages() is called once and put on a new interval
pollStartPolling(st, c) ==
    LET a == IF st.h.pollingIntervalRef # 0
             THEN clearInterval(st, st.h.pollingIntervalRef) ELSE st
        id == FreshTimer(a)
    IN  [h |-> [a.h EXCEPT !.isPolling = TRUE, !.pollingIntervalRef = id],
         t |-> a.t \cup {[id |-> id, chatId |-> c]},
         f |-> a.f \cup {Call("poll", c)}]

\* the return function of the polling effect
PollCleanup(st) ==
    IF st.h.pollingIntervalRef # 0
    THEN [clearInterval(st, st.h.pollingIntervalRef)
             EXCEPT !.h.pollingIntervalRef = 0]
    ELSE st

\* the page passes another chatId: cleanup of the polling effect, then the
\* load effect and the polling effect of the new render
PollSelectChat(c) ==
    /\ c # useChat.chatId
    /\ Cardinality(fetches) + 2 <= MaxPollCalls
    /\ LET ran == useChat.chatId # 0 /\ ~useChat.isAdmin
           a == IF ran THEN PollCleanup(Client) ELSE Client
           b == [a EXCEPT !.h.chatId = c]
           d == IF c # 0 THEN loadMessages(b, c) ELSE b
           e == IF c # 0 /\ ~useChat.isAdmin THEN pollStartPolling(d, c) ELSE d
       IN  Commit(e)
    /\ UNCHANGED <<sockets, chats>> /\ BrowserFrame

\* setInterval(fetchMessages, 2000): a timer fires
PollTick(x) ==
    /\ x \in timers
    /\ Cardinality(fetches) < MaxPollCalls
    /\ fetches' = fetches \cup {Call("poll", x.chatId)}
    /\ UNCHANGED <<useChat, sockets, timers, chats>> /\ BrowserFrame

\* sendMessage(messageText) with a non-empty text
PollSendMessage ==
    /\ useChat.chatId # 0
    /\ Cardinality(fetches) < MaxPollCalls
    /\ Posts < MaxPosts
    /\ fetches' = fetches \cup {Call("send", useChat.chatId)}
    /\ UNCHANGED <<useChat, sockets, timers, chats>> /\ BrowserFrame

\* the PUT .../messages/:messageId/read calls of loadMessages: one for every
\* loaded message of another sender that is not read
ReadCalls(f) ==
    {[Call("read", f.chatId) EXCEPT !.messageId = f.body[i]._id] :
        i \in {k \in DOMAIN f.body :
                  /\ f.body[k].senderId # BrowserUser(useChat.isAdmin).id
                  /\ ~f.body[k].isRead}}

\* the response of the GET of loadMessages: setMessages(loadedMessages) and
\* the mark-read calls
ApplyLoad(f) ==
    /\ f \in fetches /\ f.pc = "answered" /\ f.kind = "load"
    /\ useChat' = [useChat EXCEPT !.messages = f.body]
    /\ fetches' = (fetches \ {f}) \cup ReadCalls(f)
    /\ UNCHANGED <<sockets, timers, chats>> /\ BrowserFrame

\* the response of the GET of fetchMessages: setMessages(newMessages)
ApplyPoll(f) ==
    /\ f \in fetches /\ f.pc = "answered" /\ f.kind = "poll"
    /\ useChat' = [useChat EXCEPT !.messages = f.body]
    /\ fetches' = fetches \ {f}
    /\ UNCHANGED <<sockets, timers, chats>> /\ BrowserFrame

\* PUT /api/chat/:chatId/messages/:messageId/read of the browser's user,
\* served: consumerOrFarmer, the participant check, findIndex, chat.save();
\* nobody reads the answer
ServeRead(f) ==
    /\ f \in fetches /\ f.pc = "sent" /\ f.kind = "read"
    /\ LET user == BrowserUser(useChat.isAdmin)
           chat == chats[f.chatId]
           q == [Idle EXCEPT !.user = user, !.chatId = f.chatId,
                             !.len = Len(chat.messages)]
           idx == messageIndex(chat, f.messageId)
       IN  IF \/ consumerOrFarmer(user) # CallNext
              \/ ChatAccess(q) # CallNext
              \/ idx = 0
           THEN chats' = chats
           ELSE \E rejected \in SaveRejects(LoadedValid(q)) :
                   chats' = IF rejected THEN chats
                            ELSE UpdateById(chats, f.chatId, MarkRead(chat, idx))
    /\ fetches' = fetches \ {f}
    /\ UNCHANGED <<useChat, sockets, timers>> /\ BrowserFrame

\* a step of one of the timers, of one of the HTTP calls in flight
PollTimerFires == \E x \in timers : PollTick(x)
LoadApplied == \E f \in fetches : ApplyLoad(f)
PollApplied == \E f \in fetches : ApplyPoll(f)
ReadServed == \E f \in fetches : ServeRead(f)

PollNext ==
    \/ \E c \in {0} \cup DOMAIN BrowserChats : PollSelectChat(c)
    \/ PollTimerFires
    \/ PollSendMessage
    \/ GetServed
    \/ LoadApplied
    \/ PollApplied
    \/ PostServed
    \/ SendApplied
    \/ ReadServed
    \/ CallFails
    \/ \E c \in DOMAIN BrowserChats : PeerPost(c)

PollSpec == HookInit /\ [][PollNext]_vars

\* the accounts that can sign in on the page
IndexUsers == SeedUsers \o <<UserDoc(<<"a", "2">>, IndexAdminEmail, "admin")>>

IndexInit ==
    /\ workload = "browser"
    /\ users = IndexUsers
    /\ plants = SeedPlants
    /\ chats = SeedChats
    /\ nextId = [user |-> Len(users) + 1, plant |-> Len(plants) + 1,
                 chat |-> Len(chats) + 1]
    /\ reqs = [r \in Slots |-> Idle]
    /\ nreq = 0
    /\ emitted = <<>>
    /\ acked = {}
    /\ rooms = [c \in RoomIds |-> {}]
    /\ sent = <<>>
    /\ inbox = [t \in SocketIds |-> <<>>]
    /\ useChat = Mount(FALSE)
    /\ sockets = <<>>
    /\ timers = {}
    /\ fetches = {}
    /\ index \in {IndexMount(x) : x \in StoredRoles}

\* the pending promise of syncRoleToBackend settles
SyncSettles == SyncToken \/ SyncAnswered \/ SyncThrows

IndexNext ==
    \/ ClerkLoaded
    \/ GetStarted
    \/ CloseRoleModal
    \/ \E role \in {"Farmer", "Consumer"} : handleSelectRole(role)
    \/ SignedInHere
    \/ SyncToken
    \/ SyncAnswered
    \/ SyncThrows

\* Clerk finishes loading and promises settle
IndexSpec ==
    /\ IndexInit /\ [][IndexNext]_vars
    /\ WF_vars(ClerkLoaded) /\ WF_vars(SyncSettles)

Init ==
    /\ workload \in Workloads
    /\ users = SeedUsers
    /\ plants = SeedPlants
    /\ chats \in CASE workload = "socket" -> {SeedChats}
                  [] workload = "race" -> {<<>>, SeedChats, UnreadChats}
                  [] OTHER -> {<<>>, SeedChats}
    /\ nextId = [user |-> Len(users) + 1, plant |-> Len(plants) + 1,
                 chat |-> Len(chats) + 1]
    /\ reqs = [r \in Slots |-> Idle]
    /\ nreq = 0
    /\ emitted = <<>>
    /\ acked = {}
    /\ rooms = [c \in RoomIds |-> {}]
    /\ sent = <<>>
    /\ inbox = [t \in SocketIds |-> <<>>]
    /\ useChat = Mount(FALSE)
    /\ sockets = <<>>
    /\ timers = {}
    /\ fetches = {}
    /\ index = IndexMount("null")

Next ==
    \/ \E t \in SocketIds, c \in RoomIds :
        \/ JoinChat(t, c)
        \/ LeaveChat(t, c)
        \/ SocketSendMessage(t, c)
        \/ TypingStart(t, c)
        \/ TypingStop(t, c)
        \/ Disconnect(t, c)
    \/ \E r \in Slots :
        \/ Receive(r)
        \/ AuthFind(r)
        \/ AuthEmail(r)
        \/ AuthWrite(r)
        \/ GetFind(r)
        \/ GetReset(r)
        \/ SendFind(r)
        \/ SendUpdate(r)
        \/ ReadFind(r)
        \/ ReadSave(r)
        \/ CloseFind(r)
        \/ CloseUpdate(r)
        \/ ReportFind(r)
        \/ ReportUpdate(r)
        \/ StartPlant(r)
        \/ StartFind(r)
        \/ StartCreate(r)
        \/ SearchFind(r)
        \/ SearchViews(r)
        \/ SearchHistory(r)
        \/ SyncRole(r)
        \/ SavePlant(r)
        \/ Upgrade(r)
        \/ TestAuth(r)
        \/ UploadPlant(r)
        \/ UploadRole(r)
        \/ OwnCheck(r)
        \/ FarmerUpdate(r)
        \/ FarmerDelete(r)
        \/ AdmUserFind(r)
        \/ AdmUserPlants(r)
        \/ AdmUserChats(r)
        \/ AdmUserDelete(r)
        \/ AdmPlantFind(r)
        \/ AdmPlantChats(r)
        \/ AdmPlantDelete(r)
        \/ AdmResolve(r)
        \/ AdmDeleteChat(r)
        \/ AdmSetRole(r)

Spec == Init /\ [][Next]_vars

TypeOK ==
    /\ \A u \in DOMAIN users : users[u].role \in Roles \cup {"user"}
    /\ \A c \in DOMAIN chats : chats[c].totalMessages \in Nat

\* ================================================================== claims
Live(c) == c \in DOMAIN chats /\ c \in DOMAIN chats'

\* the request in slot r takes the step from position pc and is answered
Answers(r, route, pc) ==
    /\ Running(r, route, pc)
    /\ reqs'[r].pc = "done"
    /\ reqs'[r].rid = reqs[r].rid

\* C1: after any interleaving of start-chat requests the Chat collection
\* holds at most one document for each (plantId, userId) pair; stated for
\* the threads a consumer opened with the farmer of a plant.
C1_OneChatPerPair ==
    \A c, d \in DOMAIN chats :
        (/\ chats[c].plantId = chats[d].plantId
         /\ chats[c].userId = chats[d].userId
         /\ chats[c].participants[2].role = "consumer"
         /\ chats[c].farmerId # chats[c].userId)
            => c = d

\* sender and text of a stored message
Core(m) == [id |-> m.id, senderId |-> m.senderId, message |-> m.message]

\* a send to chat c is answered 201 in this step
SendStep(c) ==
    \E r \in Slots : Answers(r, "sendMessage", "send_update") /\ reqs[r].chatId = c

\* C2: the message array of a chat that continues to exist is append-only:
\* every step keeps the stored messages, their order, senders and texts; a
\* successful send adds exactly one message at the end, every other
\* operation adds none.
C2_AppendOnly ==
    [][\A c \in DOMAIN chats :
          Live(c) =>
            LET old == chats[c].messages
                new == chats'[c].messages
            IN  /\ Len(new) >= Len(old)
                /\ \A i \in 1..Len(old) : Core(new[i]) = Core(old[i])
                /\ Len(new) = Len(old) + (IF SendStep(c) THEN 1 ELSE 0)
                /\ SendStep(c) =>
                     \E r \in Slots :
                        /\ Answers(r, "sendMessage", "send_update")
                        /\ Core(new[Len(new)]) = Core(NewMessage(reqs[r]))]_vars

\* a send was appended behind an earlier message that a reader marked read
C2_Witness ==
    \E c \in DOMAIN chats :
        /\ Len(chats[c].messages) >= 2
        /\ \E r \in Slots : reqs[r].pc = "done" /\ reqs[r].route = "sendMessage"
                             /\ reqs[r].status = 201 /\ reqs[r].chatId = c

\* the number of stored copies of the message of request rid in chat c
Copies(c, rid) ==
    Cardinality({i \in 1..Len(chats[c].messages) : chats[c].messages[i].id = rid})

\* C3: under any interleaving of sends to an existing chat, every request
\* answered 201 has its message stored exactly once, no message is stored
\* twice, and totalMessages equals the length of messages.
C3_SendsStoredOnce ==
    \A c \in DOMAIN chats :
        /\ chats[c].totalMessages = Len(chats[c].messages)
        /\ \A a \in acked : a.chatId = c => Copies(c, a.rid) = 1
        /\ \A i, j \in 1..Len(chats[c].messages) :
              chats[c].messages[i].id = chats[c].messages[j].id => i = j

\* two concurrent sends were both answered 201, the later request first
C3_Witness ==
    /\ workload = "race"
    /\ \E c \in DOMAIN chats :
          /\ Len(chats[c].messages) = 2
          /\ chats[c].messages[1].id > chats[c].messages[2].id
          /\ \A i \in 1..2 : [rid |-> chats[c].messages[i].id, chatId |-> c] \in acked

\* the request in slot r takes a step
Steps(r) == reqs'[r] # reqs[r] /\ reqs'[r].rid = reqs[r].rid

\* the step is taken past authenticateUser, with req.user attached
PassedAuth(r) ==
    /\ reqs[r].pc \notin {"idle", "done", "auth", "auth_email"}
    /\ ~(reqs[r].pc = "auth_write" /\ reqs'[r].status = 401)

InParticipants(c, uid) ==
    \E i \in DOMAIN chats[c].participants : chats[c].participants[i].userId = uid

\* a step of a send-message request whose user is not a participant of the chat
OutsiderSend(r) ==
    /\ Steps(r) /\ PassedAuth(r)
    /\ reqs[r].route = "sendMessage"
    /\ reqs[r].chatId \in DOMAIN chats
    /\ ~InParticipants(reqs[r].chatId, reqs'[r].user.id)

BodyValid(q) == q.len >= MinMessageLen /\ q.len <= MaxMessageLen

\* C4 as stated: a send by an authenticated user who is not a participant is
\* answered 403, changes nothing of the chat and emits no event.
C4_OutsiderAnswered403 ==
    [][\A r \in Slots :
          OutsiderSend(r) =>
            /\ reqs'[r].pc \in {"handler", "done"}
            /\ reqs'[r].pc = "done" => reqs'[r].status = 403
            /\ chats' = chats
            /\ emitted' = emitted]_vars

\* C4 amended: such a send never reaches the update, changes nothing of the
\* chat and emits no event; it is answered 403, or 400 when the message body
\* fails validation (the handler validates before it looks at the chat); a
\* valid body is always answered 403.
C4_OutsiderRejected ==
    [][\A r \in Slots :
          OutsiderSend(r) =>
            /\ reqs'[r].pc \in {"handler", "done"}
            /\ reqs'[r].pc = "done" =>
                  \/ reqs'[r].status = 403
                  \/ reqs'[r].status = 400 /\ ~BodyValid(reqs[r])
            /\ chats' = chats
            /\ emitted' = emitted]_vars

\* a consumer or farmer outside the chat sent a valid message and got 403
C4_Witness ==
    \E r \in Slots :
        /\ reqs[r].pc = "done" /\ reqs[r].route = "sendMessage"
        /\ reqs[r].status = 403
        /\ reqs[r].user.role \in {"consumer", "farmer"}
        /\ reqs[r].chatId \in DOMAIN chats
        /\ ~InParticipants(reqs[r].chatId, reqs[r].user.id)

\* C5: every chat is a thread between the farmer who owns the plant and a
\* different user, the requester, whose role is consumer.
C5_FarmerAndConsumer ==
    \A c \in DOMAIN chats :
        /\ chats[c].plantId \in DOMAIN plants =>
              plants[chats[c].plantId].farmerId = chats[c].farmerId
        /\ chats[c].participants[1].userId = chats[c].farmerId
        /\ chats[c].participants[2].userId = chats[c].userId
        /\ chats[c].farmerId # chats[c].userId
        /\ chats[c].participants[2].role = "consumer"

\* everything of a chat document but isActive
Frame(chat) == [chat EXCEPT !.isActive = TRUE]

\* C6: a user-initiated close deactivates and never deletes: no step of
\* DELETE /api/chat/:chatId removes a chat or changes anything but isActive,
\* and when it answers 200 the chat, if it still exists, is inactive with its
\* messages, counters, participants and report fields as they were.
C6_CloseDeactivatesOnly ==
    [][\A r \in Slots :
          (Steps(r) /\ reqs[r].route = "deleteChat") =>
            /\ DOMAIN chats' = DOMAIN chats
            /\ \A c \in DOMAIN chats :
                  /\ Frame(chats'[c]) = Frame(chats[c])
                  /\ c # reqs[r].chatId => chats'[c] = chats[c]
            /\ (reqs'[r].pc = "done" /\ reqs'[r].status = 200
                    /\ reqs[r].chatId \in DOMAIN chats)
                  => ~chats'[reqs[r].chatId].isActive]_vars

\* a participant closed a chat that holds messages
C6_Witness ==
    \E r \in Slots :
        /\ reqs[r].pc = "done" /\ reqs[r].route = "deleteChat"
        /\ reqs[r].status = 200
        /\ reqs[r].chatId \in DOMAIN chats
        /\ ~chats[reqs[r].chatId].isActive
        /\ InParticipants(reqs[r].chatId, reqs[r].user.id)
        /\ Len(chats[reqs[r].chatId].messages) >= 1
        /\ chats[reqs[r].chatId].unreadCount.farmer
             + chats[reqs[r].chatId].unreadCount.user >= 1

\* C7: per-role unread counters, for a chat between two different users: a
\* send by the consumer side (userId) adds 1 to unreadCount.farmer and leaves
\* unreadCount.user, a send by the farmer side adds 1 to unreadCount.user
\* and leaves unreadCount.farmer; a GET by a participant leaves the counter
\* of that participant's side at 0.
C7_PerRoleUnread ==
    [][\A r \in Slots :
          LET c == reqs[r].chatId
              u == reqs[r].user.id
          IN  (c \in DOMAIN chats /\ Live(c) /\ chats[c].farmerId # chats[c].userId)
              => /\ (Answers(r, "sendMessage", "send_update") /\ u = chats[c].userId)
                    => /\ chats'[c].unreadCount.farmer = chats[c].unreadCount.farmer + 1
                       /\ chats'[c].unreadCount.user = chats[c].unreadCount.user
                 /\ (Answers(r, "sendMessage", "send_update") /\ u = chats[c].farmerId)
                    => /\ chats'[c].unreadCount.user = chats[c].unreadCount.user + 1
                       /\ chats'[c].unreadCount.farmer = chats[c].unreadCount.farmer
                 /\ (reqs[r].route = "getChat" /\ Steps(r) /\ reqs'[r].pc = "done"
                        /\ reqs'[r].status = 200 /\ u = chats[c].userId)
                    => chats'[c].unreadCount.user = 0
                 /\ (reqs[r].route = "getChat" /\ Steps(r) /\ reqs'[r].pc = "done"
                        /\ reqs'[r].status = 200 /\ u = chats[c].farmerId)
                    => chats'[c].unreadCount.farmer = 0]_vars

\* the bearer token of the header is one the JWT decoder rejects
Undecodable(header) ==
    HasBearer(header) /\ ~DecodeToken(SubstringFrom(header.text, BearerLen)).ok

\* C8: a request whose bearer token cannot be decoded takes the fallback
\* path and is never answered 401, whatever requests came before it.
C8_FallbackNever401 ==
    \A r \in Slots :
        (reqs[r].pc = "done" /\ Undecodable(reqs[r].header))
            => reqs[r].status # 401

\* C9: a request without an Authorization header, or with one that does not
\* start with 'Bearer ', is answered 401 by its first step, reaches no
\* handler, and that step creates and modifies no User document.
C9_NoBearer401 ==
    [][\A r \in Slots :
          (Steps(r) /\ reqs[r].pc # "done"
             /\ (~reqs[r].header.present
                   \/ ~StartsWith(reqs[r].header.text, BearerPrefix)))
          => /\ reqs[r].pc = "auth"
             /\ reqs'[r].pc = "done"
             /\ reqs'[r].status = 401
             /\ reqs'[r].user = NoUser
             /\ users' = users]_vars

\* requests with no header and with a non-Bearer header were answered 401
C9_Witness ==
    \E r \in Slots :
        /\ reqs[r].pc = "done" /\ reqs[r].status = 401
        /\ reqs[r].header.present
        /\ ~StartsWith(reqs[r].header.text, BearerPrefix)
        /\ users = SeedUsers

\* the positions of the handlers behind the role gates
HandlerPcs == {"handler", "get_reset", "send_update", "read_save",
               "close_update", "report_update", "start_find", "start_create",
               "admu_plants", "admu_chats", "admu_delete", "admp_chats",
               "admp_delete", "upload_role", "plant_update", "plant_delete",
               "search_views", "search_history"}

\* C10: role checks are string-equality gates: a handler behind
\* authorizeRole(roles) runs only for a req.user whose role is listed; behind
\* adminOnly it runs exactly for role 'admin', every other authenticated
\* requester is answered 403, so no admin handler acts for a non-admin.
C10_RoleGates ==
    \A r \in Slots :
        /\ (reqs[r].route \in AdminRoutes /\ reqs[r].pc \in HandlerPcs)
              => reqs[r].user.role = "admin"
        /\ (reqs[r].route \in ChatRoutes \cup UserRoutes /\ reqs[r].pc \in HandlerPcs)
              => reqs[r].user.role \in {"consumer", "farmer"}
        /\ (reqs[r].route \in AdminRoutes /\ reqs[r].pc = "done"
              /\ reqs[r].user.id # 0 /\ reqs[r].status # 401)
              => (reqs[r].status = 403 <=> reqs[r].user.role # "admin")

\* a farmer or consumer asked for an admin route and was answered 403
C10_Witness ==
    \E r \in Slots :
        /\ reqs[r].pc = "done" /\ reqs[r].route = "adminDeleteUser"
        /\ reqs[r].user.role \in {"consumer", "farmer"}
        /\ reqs[r].status = 403
        /\ users = SeedUsers /\ plants = SeedPlants

\* C11: the role of every User document is one of 'consumer', 'farmer',
\* 'admin', whatever authentication, sync-role, auto-upgrade and admin
\* role-update requests have run.
C11_RoleInEnum ==
    \A u \in DOMAIN users : users[u].role \in UserRoleEnum

\* C12: a User document is keyed by its clerkId: no step changes the
\* clerkId of an existing document, and a request whose token subject
\* matched no clerkId when it was looked up is not attached to a document
\* that existed already.
C12_ClerkIdIsKey ==
    [][/\ \A u \in DOMAIN users \cap DOMAIN users' :
             users'[u].clerkId = users[u].clerkId
       /\ \A r \in Slots :
             (reqs[r].pc = "auth_email" /\ Steps(r))
                => reqs'[r].user.id \notin DOMAIN users]_vars

\* C13: when DELETE /api/admin/users/:id is answered 200 for user U, U no
\* longer exists, no Plant has farmerId U and no active Chat has U as
\* farmerId or userId, whatever requests of U ran in between.
C13_CascadeComplete ==
    [][\A r \in Slots :
          (Answers(r, "adminDeleteUser", "admu_delete") /\ reqs'[r].status = 200)
          => LET U == reqs[r].targetId
             IN  /\ U \notin DOMAIN users'
                 /\ \A p \in DOMAIN plants' : plants'[p].farmerId # U
                 /\ \A c \in DOMAIN chats' :
                       chats'[c].isActive =>
                          (chats'[c].farmerId # U /\ chats'[c].userId # U)]_vars

\* C14: plants are soft-deleted outside the admin path: only a step of an
\* admin deletion removes a Plant document, and a farmer's
\* DELETE /api/farmer/plants/:id answered 200 leaves the document in place
\* with isActive false.
C14_FarmerDeleteIsSoft ==
    [][/\ (DOMAIN plants \ DOMAIN plants' # {})
            => \E r \in Slots :
                  /\ Steps(r)
                  /\ reqs[r].route \in {"adminDeletePlant", "adminDeleteUser"}
       /\ \A r \in Slots :
             (/\ Answers(r, "farmerDeletePlant", "plant_delete")
              /\ reqs'[r].status = 200
              /\ reqs[r].plantId \in DOMAIN plants)
             => /\ reqs[r].plantId \in DOMAIN plants'
                /\ ~plants'[reqs[r].plantId].isActive]_vars

\* a step of PUT or DELETE /api/farmer/plants/:id made for a non-admin user
\* who is not the farmer of the plant
StrangerOnPlant(r) ==
    /\ Steps(r) /\ PassedAuth(r)
    /\ reqs[r].route \in {"farmerUpdatePlant", "farmerDeletePlant"}
    /\ reqs[r].plantId \in DOMAIN plants
    /\ reqs'[r].user.role # "admin"
    /\ reqs'[r].user.id # plants[reqs[r].plantId].farmerId

\* C15: a plant belongs to one farmer: no step changes the farmerId of a
\* plant, and PUT or DELETE /api/farmer/plants/:id by a non-admin user who
\* is not the plant's farmer never reaches the handler, is answered 403 and
\* leaves every plant unchanged.
C15_OwnerOnly ==
    [][/\ \A p \in DOMAIN plants \cap DOMAIN plants' :
             plants'[p].farmerId = plants[p].farmerId
       /\ \A r \in Slots :
             StrangerOnPlant(r)
             => /\ plants' = plants
                /\ reqs'[r].pc \notin {"plant_update", "plant_delete"}
                /\ reqs'[r].pc = "done" => reqs'[r].status = 403]_vars

\* farmers and consumers were answered 403 on plants of another farmer,
\* for PUT and for DELETE
C15_Witness ==
    \E r \in Slots :
        /\ reqs[r].pc = "done" /\ reqs[r].status = 403
        /\ reqs[r].route \in {"farmerUpdatePlant", "farmerDeletePlant"}
        /\ reqs[r].user.id \in DOMAIN users
        /\ reqs[r].user.role = "farmer"
        /\ \E p \in DOMAIN plants : plants[p].farmerId # reqs[r].user.id
        /\ plants = SeedPlants

\* C16: after a successful plant creation (save-plant answered 200,
\* upload-plant answered 201) the stored role of the creating user is
\* 'farmer', unless the user is an admin.
C16_UploaderIsFarmer ==
    [][\A r \in Slots :
          (/\ Steps(r)
           /\ reqs[r].route \in {"savePlant", "uploadPlant"}
           /\ reqs'[r].pc = "done" /\ reqs'[r].status \in {200, 201}
           /\ reqs[r].user.id \in DOMAIN users'
           /\ users'[reqs[r].user.id].role # "admin")
          => users'[reqs[r].user.id].role = "farmer"]_vars

\* C18: no request is left unanswered: a request never ends in a position
\* from which no response is sent.
C18_AlwaysAnswered ==
    \A r \in Slots : reqs[r].pc # "hung"

\* C17: a search-plants request with a valid query containing a
\* health-condition keyword, once past the role gate, is answered with
\* status 'success' (200) and searchType 'condition', whether or not the
\* LLM call succeeded.
C17_ConditionSearchSucceeds ==
    [][\A r \in Slots :
          (/\ Steps(r)
           /\ reqs[r].route = "searchPlants"
           /\ reqs[r].pc \in HandlerPcs
           /\ isHealthCondition(reqs[r].query)
           /\ reqs'[r].pc = "done")
          => /\ reqs'[r].status = 200
             /\ reqs'[r].searchType = "condition"]_vars

\* the event the server received in this step
LastSent == sent'[Len(sent')]

\* C19: room broadcast: a 'send-message', 'typing-start' or 'typing-stop'
\* event from socket S for chat C is delivered, once, to exactly the sockets
\* that are in room C at that moment, S excluded; every other socket
\* receives nothing, and no other step (a later join in particular)
\* delivers anything.
C19_RoomBroadcast ==
    [][IF Len(sent') = Len(sent) + 1
       THEN \A t \in SocketIds :
               inbox'[t] =
                 IF t \in rooms[LastSent.chatId] /\ t # LastSent.from
                 THEN Append(inbox[t], [event |-> LastSent.event,
                                        chatId |-> LastSent.chatId,
                                        n |-> Len(sent')])
                 ELSE inbox[t]
       ELSE inbox' = inbox]_vars

\* socket 1, a member of room 1, sent to room 1 since socket 3 left it and
\* before it joined again: socket 2 (a member) got the event, sockets 1 and
\* 3 got nothing
C19_Witness ==
    /\ Len(sent) = 1
    /\ sent[1].from = 1 /\ sent[1].chatId = 1
    /\ rooms[1] = {1, 2, 3}
    /\ Len(inbox[2]) = 1
    /\ inbox[1] = <<>> /\ inbox[3] = <<>>

\* message rid is stored in chat c after the step
PersistedNext(c, rid) ==
    /\ c \in DOMAIN chats'
    /\ \E i \in 1..Len(chats'[c].messages) : chats'[c].messages[i].id = rid

\* C20: 'receive-message' is emitted to room chatId at most once per
\* request and only for a message that the same step persisted in the chat
\* document; a send request is answered 201 only if its message was
\* persisted, so rejected requests and requests whose chat disappeared
\* between the lookup and the write emit nothing and get no 201.
C20_EmitOnlyPersisted ==
    [][/\ Len(emitted') <= Len(emitted) + 1
       /\ (Len(emitted') = Len(emitted) + 1)
             => LET e == emitted'[Len(emitted')]
                IN  /\ PersistedNext(e.chatId, e.rid)
                    /\ \A i \in 1..Len(emitted) : emitted[i].rid # e.rid
       /\ \A r \in Slots :
             (/\ Steps(r) /\ reqs[r].route = "sendMessage"
              /\ reqs'[r].pc = "done" /\ reqs'[r].status = 201)
             => PersistedNext(reqs[r].chatId, reqs[r].rid)]_vars

\* C21: an admin cannot delete their own account: the handler step of
\* DELETE /api/admin/users/:id whose :id is the requester's own user answers
\* 400 and changes no user, plant or chat, whoever the admin is.
C21_NoSelfDelete ==
    [][\A r \in Slots :
          (/\ Steps(r)
           /\ Running(r, "adminDeleteUser", "handler")
           /\ reqs[r].user.id = reqs[r].targetId)
          => /\ reqs'[r].pc = "done" /\ reqs'[r].status = 400
             /\ users' = users /\ plants' = plants /\ chats' = chats]_vars

\* how often the message with this text is in the displayed list
Shown(h, text) ==
    Cardinality({k \in DOMAIN h.messages : h.messages[k].message = text})

\* C22: duplicate prevention in the socket-based useChat hook is exact: no
\* message is displayed twice, and after a 'receive-message' event or the
\* response of an own send has been handled the message is in the list
\* exactly once.
C22_ExactDedup ==
    [][/\ \A k \in DOMAIN useChat'.messages :
             Shown(useChat', useChat'.messages[k].message) = 1
       /\ \A i \in 1..MaxSockets :
             ReceiveMessage(i)
                => Shown(useChat', Head(sockets[i].queue).message) = 1
       /\ \A f \in fetches :
             ApplySend(f) => Shown(useChat', f.body[1].message) = 1]_vars

\* the socket of the effect run of the current render
CurrentSocket == sockets[Len(sockets)]

\* a chat is selected by a non-admin, the socket effect of this render has
\* run, and every socket of an earlier render is closed
Selected ==
    /\ useChat.chatId # 0 /\ ~useChat.isAdmin
    /\ sockets # <<>>
    /\ CurrentSocket.chatId = useChat.chatId
    /\ \A i \in 1..(Len(sockets) - 1) : sockets[i].state = "closed"

\* the socket is disconnected or failed to connect
SocketDown == Selected /\ CurrentSocket.failed

\* C23: polling fallback of the socket-based useChat hook: whenever a chat
\* is selected by a non-admin and the socket is disconnected or failed to
\* connect, a polling timer is running; the step in which a socket connects
\* leaves no timer running; and at most one polling timer exists at a time.
C23_PollingFallback ==
    /\ [](SocketDown => timers # {})
    /\ [][\A i \in 1..MaxSockets : SocketConnect(i) => timers' = {}]_vars
    /\ [](Cardinality(timers) <= 1)

\* C24: on the landing page a signed-in user is never left on the loading
\* screen forever: once Clerk is loaded and the user is signed in, the page
\* eventually navigates to /admin, /farmer or /user or shows the landing
\* content, whatever the role sync answers and whatever localStorage holds.
C24_LoadingEnds ==
    (index.isLoaded /\ index.isSignedIn)
        ~> (index.location # "/" \/ ~LoadingScreen(index))

C26_SyncKeepsAdmin ==
    [][\A r \in Slots :
          (Running(r, "syncRole", "handler") /\ Steps(r))
          => \A u \in DOMAIN users :
                users[u].role = "admin" => users'[u].role = "admin"]_vars

\* C27: no unread increment is lost by the reset of GET /api/chat/:chatId:
\* when the handler sets the recipient's counter to 0, every message of the
\* chat that is addressed to the recipient is in the document the response
\* carries, whatever POSTs of the other participant ran in between.
C27_ResetLosesNothing ==
    [][\A r \in Slots :
          (/\ Running(r, "getChat", "get_reset") /\ Steps(r)
           /\ reqs[r].chatId \in DOMAIN chats')
          => LET chat == chats'[reqs[r].chatId]
             IN  \A i \in DOMAIN chat.messages :
                    i > reqs[r].seen
                       => chat.messages[i].senderId = reqs[r].user.id]_vars

\* C28: in the polling useChat hook, once the page has switched from chat A
\* to chat B no response of a load or poll request started for A is applied
\* to the messages state: every response the hook applies belongs to a
\* request for the chat selected at that moment (checked where a chat is
\* selected and the response carries messages).
C28_NoStaleResponse ==
    [][\A f \in fetches :
          (/\ ApplyLoad(f) \/ ApplyPoll(f)
           /\ useChat.chatId # 0
           /\ f.body # <<>>) => f.chatId = useChat.chatId]_vars

\* C29: each active chat's plantId refers to an existing Plant document: a
\* plant deletion through the admin route or the owning farmer's route
\* leaves no active chat about the deleted plant, and a start-chat request
\* interleaved with a deletion creates no chat about a plant that is gone.
C29_ActiveChatHasPlant ==
    [][\A r \in Slots :
          /\ (FarmerDelete(r) \/ AdmPlantDelete(r)) =>
                \A c \in DOMAIN chats' :
                    chats'[c].plantId = reqs[r].plantId => ~chats'[c].isActive
          /\ StartCreate(r) => reqs[r].plantId \in DOMAIN plants']_vars

\* C30: every chat handed out by a successful POST /api/user/start-chat is
\* active at the moment the 201 response is sent, also when the chat for
\* the plant was deactivated earlier.
C30_StartedChatActive ==
    [][\A r \in Slots :
          (/\ reqs[r].route = "startChat" /\ reqs[r].pc # "done"
           /\ reqs'[r].pc = "done" /\ reqs'[r].status = 201)
          => chats'[reqs'[r].chatId].isActive]_vars

====
